---- MODULE Spec2Model ----
(***************************************************************************)
(* Model of the ssoproxy login broker of mlosinsky/clisso:                  *)
(*   - Context (ssoproxy/context.go): the requests map, requestsMutex,       *)
(*     initiateLogin, onLoginSuccess, onLoginError;                          *)
(*   - OIDCLoginHandler and OIDCRedirectHandler (ssoproxy/handler.go);       *)
(*   - the relay client LoginWithOIDCProxy (ssoclient/proxy_auth.go);        *)
(*   - the device-grant client LoginWithDeviceAuth (ssoclient/utils.go).     *)
(* Every begin-login request and every redirect request is a goroutine;     *)
(* each statement that touches shared state (the map, the mutex, a channel, *)
(* the response stream) is one step of that goroutine.                      *)
(***************************************************************************)
EXTENDS Integers, Sequences, FiniteSets, TLC

\* ---------------------------------------------------------------- bounds
NumLogins == 2
NumRedirects == 2
NumReqIds == 2

Logins == 1..NumLogins
Redirects == 1..NumRedirects
\* identifiers generateReqId can return
ReqIds == 1..NumReqIds
\* a state value no begin-login ever issued ("doesnotexist")
UnknownState == 0
States == ReqIds \cup {UnknownState}

\* ------------------------------------------------------------- constants
StatusOK == 200
StatusPermanentRedirect == 308
StatusBadRequest == 400
StatusMethodNotAllowed == 405
StatusInternalServerError == 500

eventAuthURI == "auth-uri"
eventLoggedIn == "logged-in"
eventError == "error"

ErrNil == "nil"
ErrTimeout == "user's login session timed out"
ErrExchange == "failed to retrieve tokens from authorization code"
ErrNoSession == "user's session id does not exist in OIDC context"

\* the nil channel: a send or a receive on it blocks forever
NilChan == 0
\* no goroutine holds requestsMutex
NoHolder == <<"none", 0>>
\* the empty string
Empty == <<>>

VARIABLES
    requests,       \* ctx.requests: reqId -> channel (named by the login that made it)
    requestsMutex,  \* holder of ctx.requestsMutex
    config,         \* AuthorizationURI parses / Success-, FailedRedirectURI set
    fatal,          \* goroutines of the map race on which the runtime aborted the process
    lpc,            \* position of each begin-login goroutine
    reqId,          \* identifier generated for each begin-login
    selch,          \* channel the select of initiateLogin receives from
    result,         \* loginResult handed to the handler of initiateLogin
    stream,         \* events written to the client of each begin-login
    received,       \* number of outcomes each begin-login took from a channel
    rpc,            \* position of each redirect goroutine
    req,            \* the redirect request: method, state, code
    tokenRes,       \* what oidcGetTokens returned for each redirect
    sendch,         \* channel the send of onLoginSuccess/onLoginError uses
    deliverErr,     \* return value of onLoginSuccess
    statusCode,     \* statusCode computed by the redirect handler
    response,       \* response written to the browser
    waitAtArrival,  \* WaitStatus of the state when the redirect arrived
    \* ssoclient.LoginWithOIDCProxy
    cpc,            \* position of the relay client
    httpStatus,     \* outcome of http.Get: 0 is a transport error, else res.StatusCode
    httpBody,       \* res.Body: the messages of the response
    scanned,        \* number of messages the scanner has handed in
    tokenEvent,     \* var tokenEvent proxyTokensEvent
    loginURIs,      \* arguments of the calls of onLoginURIReceived, in order
    loginResult,    \* *LoginResult returned by LoginWithOIDCProxy
    loginErr,       \* error returned by LoginWithOIDCProxy
    \* the event stream as bytes: sendSSEEvent / consumeSSEFromHTTPEventStream
    kpc,            \* position of the consumer of the byte stream
    outbox,         \* what the sender writes to the connection, chunk by chunk
    written,        \* number of chunks written
    unread,         \* bytes written and not yet taken by the scanner
    handed,         \* arguments of the calls of onEventReceived, in order
    consumeErr,     \* error returned by consumeSSEFromHTTPEventStream
    \* ssoclient.LoginWithDeviceAuth / pollTokensEndpoint
    dpc,            \* position of the device-grant client
    deviceRes,      \* deviceAuthResponse: Interval and ExpiresIn
    pollInterval,   \* pollInterval of pollTokensEndpoint
    maxPollTime,    \* maxPollTime of pollTokensEndpoint
    timePassed,     \* timePassed of pollTokensEndpoint
    lastSleep,      \* seconds slept before the latest request
    requestsSent,   \* number of requests sent to the token endpoint
    slowDowns,      \* number of slow_down answers received
    lastAnswer,     \* latest answer of the token endpoint
    pollErr,        \* error returned by pollTokensEndpoint
    pendings,       \* number of authorization_pending answers received
    tokenSuccess,   \* tokenSuccessResponse returned by pollTokensEndpoint
    deviceLoginResult,  \* *LoginResult returned by LoginWithDeviceAuth
    verificationCalls   \* arguments of the calls of verificationURIReceived, in order

brokerVars == <<requests, requestsMutex, config, fatal, lpc, reqId, selch, result,
                stream, received, rpc, req, tokenRes, sendch, deliverErr, statusCode,
                response, waitAtArrival>>

relayVars == <<cpc, httpStatus, httpBody, scanned, tokenEvent, loginURIs, loginResult,
               loginErr>>

codecVars == <<kpc, outbox, written, unread, handed, consumeErr>>

clientVars == <<relayVars, codecVars>>

deviceVars == <<dpc, deviceRes, pollInterval, maxPollTime, timePassed, lastSleep,
                requestsSent, slowDowns, lastAnswer, pollErr, pendings, tokenSuccess,
                deviceLoginResult, verificationCalls>>

vars == <<brokerVars, clientVars, deviceVars>>

\* the process was aborted ("fatal error: concurrent map writes")
crashed == fatal # {}

loginVars == <<lpc, reqId, selch, result, stream, received>>
redirectVars == <<rpc, req, tokenRes, sendch, deliverErr, statusCode, response,
                  waitAtArrival>>

\* ---------------------------------------------------------------- values
\* loginResult struct
NoResult == [accessToken |-> Empty, refreshToken |-> Empty, expiration |-> 0, err |-> "none"]

LoginResultErr(e) == [accessToken |-> Empty, refreshToken |-> Empty, expiration |-> 0, err |-> e]

NoTokens == [AccessToken |-> Empty, RefreshToken |-> Empty, ExpiresIn |-> 0, err |-> "none"]

\* what the token endpoint of the identity provider can answer to the code
\* exchange: status 200 with the tokens, no response at all, a body that is
\* no JSON (with any status), or an error status with a JSON object that
\* holds no tokens, as in {"error": "invalid_grant"}
IdPAnswers == {"tokens", "no response", "no json", "error json"}

\* oidcGetTokens for the code of redirect r: the error of the request or of
\* the decoder, else the tokenResponse decoded from the body, whatever the
\* status of the response; members the body does not have stay zero
oidcGetTokens(r, answer) ==
    IF answer = "tokens"
    THEN [AccessToken |-> <<"access", r>>, RefreshToken |-> <<"refresh", r>>,
          ExpiresIn |-> 600, err |-> ErrNil]
    ELSE IF answer = "error json"
    THEN [AccessToken |-> Empty, RefreshToken |-> Empty, ExpiresIn |-> 0, err |-> ErrNil]
    ELSE [AccessToken |-> Empty, RefreshToken |-> Empty, ExpiresIn |-> 0,
          err |-> ErrExchange]

\* mutant of DeliveredResult: onLoginSuccess is called with the two tokens
\* in each other's place
DeliveredResult_TokensSwapped(r) ==
    IF tokenRes[r].err = ErrNil
    THEN [accessToken |-> tokenRes[r].RefreshToken,
          refreshToken |-> tokenRes[r].AccessToken,
          expiration |-> tokenRes[r].ExpiresIn, err |-> ErrNil]
    ELSE LoginResultErr(ErrExchange)

\* the loginResult onLoginSuccess / onLoginError put on the channel
DeliveredResult(r) ==
    IF tokenRes[r].err = ErrNil
    THEN [accessToken |-> tokenRes[r].AccessToken,
          refreshToken |-> tokenRes[r].RefreshToken,
          expiration |-> tokenRes[r].ExpiresIn, err |-> ErrNil]
    ELSE LoginResultErr(ErrExchange)

NoRequest == [method |-> "none", hasState |-> FALSE, state |-> UnknownState, hasCode |-> FALSE]

NoResponse == [status |-> 0, location |-> "none"]

Contains(id) == id \in DOMAIN requests

\* mutant of Lookup: the key is ignored and any entry of the map is taken
Lookup_AnyEntry(id) ==
    IF DOMAIN requests = {} THEN NilChan
    ELSE requests[CHOOSE k \in DOMAIN requests : \A k2 \in DOMAIN requests : k <= k2]

\* ctx.requests[id]: the zero value (nil channel) for a missing key
Lookup(id) == IF Contains(id) THEN requests[id] ELSE NilChan

MapInsert(m, id, ch) == [k \in (DOMAIN m) \cup {id} |-> IF k = id THEN ch ELSE m[k]]

MapDelete(m, id) == [k \in (DOMAIN m) \ {id} |-> m[k]]

\* ------------------------------------------------------------------ Init
\* proxyTokensEvent / LoginResult with zero values
NoTokenEvent == [AccessToken |-> Empty, RefreshToken |-> Empty, Expiration |-> 0]

\* the nil *LoginResult
NilLoginResult == [isNil |-> TRUE, AccessToken |-> Empty, RefreshToken |-> Empty, Expiration |-> 0]

\* no byte stream is open
CodecIdle ==
    /\ kpc = "idle"
    /\ outbox = <<>>
    /\ written = 0
    /\ unread = <<>>
    /\ handed = <<>>
    /\ consumeErr = <<>>

\* LoginWithOIDCProxy is not called
RelayIdle ==
    /\ cpc = "idle"
    /\ httpStatus = 0
    /\ httpBody = <<>>
    /\ scanned = 0
    /\ tokenEvent = NoTokenEvent
    /\ loginURIs = <<>>
    /\ loginResult = NilLoginResult
    /\ loginErr = <<>>

\* no relay client runs
ClientIdle ==
    /\ CodecIdle
    /\ RelayIdle

\* tokenSuccessResponse with zero values
NoTokenResponse == [AccessToken |-> Empty, RefreshToken |-> Empty, ExpiresIn |-> 0]

\* no device-grant client runs
DeviceIdle ==
    /\ dpc = "idle"
    /\ deviceRes = [Interval |-> 0, ExpiresIn |-> 0, VerificationURI |-> Empty,
                    UserCode |-> Empty]
    /\ pollInterval = 0
    /\ maxPollTime = 0
    /\ timePassed = 0
    /\ lastSleep = 0
    /\ requestsSent = 0
    /\ slowDowns = 0
    /\ lastAnswer = "none"
    /\ pollErr = <<>>
    /\ pendings = 0
    /\ tokenSuccess = NoTokenResponse
    /\ deviceLoginResult = NilLoginResult
    /\ verificationCalls = <<>>

\* NewContext leaves SuccessRedirectURI and FailedRedirectURI empty
DefaultConfigs == [authURIValid : BOOLEAN, successRedirect : {FALSE}, failedRedirect : {FALSE}]

\* a Context on which SuccessRedirectURI and FailedRedirectURI may have been set
AnyConfigs == [authURIValid : BOOLEAN, successRedirect : BOOLEAN, failedRedirect : BOOLEAN]

\* the broker after NewContext, with one of the configurations cfgs
BrokerInit(cfgs) ==
    /\ requests = <<>>
    /\ requestsMutex = NoHolder
    /\ config \in cfgs
    /\ fatal = {}
    /\ lpc = [w \in Logins |-> "start"]
    /\ reqId = [w \in Logins |-> UnknownState]
    /\ selch = [w \in Logins |-> NilChan]
    /\ result = [w \in Logins |-> NoResult]
    /\ stream = [w \in Logins |-> <<>>]
    /\ received = [w \in Logins |-> 0]
    /\ rpc = [r \in Redirects |-> "start"]
    /\ req = [r \in Redirects |-> NoRequest]
    /\ tokenRes = [r \in Redirects |-> NoTokens]
    /\ sendch = [r \in Redirects |-> NilChan]
    /\ deliverErr = [r \in Redirects |-> "none"]
    /\ statusCode = [r \in Redirects |-> 0]
    /\ response = [r \in Redirects |-> NoResponse]
    /\ waitAtArrival = [r \in Redirects |-> "none"]

Init ==
    /\ BrokerInit(DefaultConfigs)
    /\ ClientIdle
    /\ DeviceIdle

\* --------------------------------------------------------- SSE stream
Event(name, data) == [event |-> name, data |-> data]

\* sendSSEEvent: appends one event to the response stream of login w
sendSSEEvent(w, data, event) == [stream EXCEPT ![w] = Append(@, Event(event, data))]

\* json.Marshal(tokensEvent{...}): the JSON object as its members in order,
\* each a key (the json tag of the field) followed by its value
Marshal(t) ==
    <<"access_token", t.AccessToken, "refresh_token", t.RefreshToken,
      "expiration", t.Expiration>>

\* the handler closure OIDCLoginHandler passes to initiateLogin
HandlerEvent(res) ==
    IF res.err # ErrNil
    THEN Event(eventError, <<"OIDC login failed, reason: ", res.err>>)
    ELSE Event(eventLoggedIn,
               Marshal([AccessToken |-> res.accessToken,
                        RefreshToken |-> res.refreshToken,
                        Expiration |-> res.expiration]))

\* -------------------------------------------------- OIDCLoginHandler
\* goroutines are numbered in the order in which their requests arrive
Arrived(pc, i) == \A j \in DOMAIN pc : j < i => pc[j] # "start"

\* identifiers are opaque random strings, numbered in the order in which
\* generateReqId first returns them: an identifier issued before (a
\* collision) or the next one never issued
UsedIds == {reqId[w] : w \in Logins} \ {UnknownState}

FreshOrUsed == {id \in ReqIds : id <= Cardinality(UsedIds) + 1}

\* mutant of OIDCLoginHandler: the return after the error event of an
\* unparsable AuthorizationURI is missing
OIDCLoginHandler_NoReturn(w) ==
    /\ ~crashed
    /\ lpc[w] = "start"
    /\ Arrived(lpc, w)
    /\ \E gen \in FreshOrUsed \cup {UnknownState} :
          IF gen = UnknownState
          THEN /\ stream' = sendSSEEvent(w, <<"Failed to generate random request id">>, eventError)
               /\ lpc' = [lpc EXCEPT ![w] = "done"]
               /\ UNCHANGED reqId
          ELSE /\ reqId' = [reqId EXCEPT ![w] = gen]
               /\ stream' =
                     IF ~config.authURIValid
                     THEN [stream EXCEPT ![w] =
                              @ \o <<Event(eventError, <<"Invalid authorization URI">>),
                                     Event(eventAuthURI, <<"state", gen>>)>>]
                     ELSE sendSSEEvent(w, <<"state", gen>>, eventAuthURI)
               /\ lpc' = [lpc EXCEPT ![w] = "lock"]
    /\ UNCHANGED <<requests, requestsMutex, config, fatal, selch, result, received>>
    /\ UNCHANGED redirectVars
    /\ UNCHANGED <<clientVars, deviceVars>>

\* generateReqId, url.Parse of the AuthorizationURI, the auth-uri event
OIDCLoginHandler(w) ==
    /\ ~crashed
    /\ lpc[w] = "start"
    /\ Arrived(lpc, w)
    /\ \E gen \in FreshOrUsed \cup {UnknownState} :
          IF gen = UnknownState
          THEN \* rand.Read failed
               /\ stream' = sendSSEEvent(w, <<"Failed to generate random request id">>, eventError)
               /\ lpc' = [lpc EXCEPT ![w] = "done"]
               /\ UNCHANGED reqId
          ELSE IF ~config.authURIValid
          THEN /\ stream' = sendSSEEvent(w, <<"Invalid authorization URI">>, eventError)
               /\ lpc' = [lpc EXCEPT ![w] = "done"]
               /\ UNCHANGED reqId
          ELSE /\ reqId' = [reqId EXCEPT ![w] = gen]
               /\ stream' = sendSSEEvent(w, <<"state", gen>>, eventAuthURI)
               /\ lpc' = [lpc EXCEPT ![w] = "lock"]
    /\ UNCHANGED <<requests, requestsMutex, config, fatal, selch, result, received>>
    /\ UNCHANGED redirectVars
    /\ UNCHANGED <<clientVars, deviceVars>>

\* ----------------------------------------------------- initiateLogin
\* the critical section of initiateLogin:
\*   ctx.requestsMutex.Lock()
\*   ctx.requests[reqId] = make(chan *loginResult)
\*   ctx.requestsMutex.Unlock()
\* No other goroutine can take the lock inside it, and an access of the map
\* made without the lock sees the map either before or after the insert.
initiateLoginRegister(w) ==
    /\ ~crashed
    /\ lpc[w] = "lock"
    /\ requestsMutex = NoHolder
    /\ requests' = MapInsert(requests, reqId[w], w)
    /\ lpc' = [lpc EXCEPT ![w] = "select"]
    /\ UNCHANGED <<requestsMutex, config, fatal, reqId, selch, result, stream, received>>
    /\ UNCHANGED redirectVars
    /\ UNCHANGED <<clientVars, deviceVars>>

\* entering the select: the timer starts and the channel operand
\* ctx.requests[reqId] is evaluated once, without the lock
initiateLoginSelect(w) ==
    /\ ~crashed
    /\ lpc[w] = "select"
    /\ selch' = [selch EXCEPT ![w] = Lookup(reqId[w])]
    /\ lpc' = [lpc EXCEPT ![w] = "waiting"]
    /\ UNCHANGED <<requests, requestsMutex, config, fatal, reqId, result, stream, received>>
    /\ UNCHANGED redirectVars
    /\ UNCHANGED <<clientVars, deviceVars>>

\* mutant of initiateLoginTimeout: the timeout branch forgets to call handler
initiateLoginTimeout_NoHandler(w) ==
    /\ ~crashed
    /\ lpc[w] = "waiting"
    /\ result' = [result EXCEPT ![w] = LoginResultErr(ErrTimeout)]
    /\ lpc' = [lpc EXCEPT ![w] = "delete"]
    /\ UNCHANGED <<requests, requestsMutex, config, fatal, reqId, selch, stream, received>>
    /\ UNCHANGED redirectVars
    /\ UNCHANGED <<clientVars, deviceVars>>

\* case <-timeoutCtx.Done(): handler(&loginResult{err: ...}) writes the
\* terminal event
initiateLoginTimeout(w) ==
    /\ ~crashed
    /\ lpc[w] = "waiting"
    /\ result' = [result EXCEPT ![w] = LoginResultErr(ErrTimeout)]
    /\ stream' = [stream EXCEPT ![w] = Append(@, HandlerEvent(LoginResultErr(ErrTimeout)))]
    /\ lpc' = [lpc EXCEPT ![w] = "delete"]
    /\ UNCHANGED <<requests, requestsMutex, config, fatal, reqId, selch, received>>
    /\ UNCHANGED redirectVars
    /\ UNCHANGED <<clientVars, deviceVars>>

\* mutant of initiateLoginDelete: initiateLogin returns without the delete
initiateLoginDelete_NoDelete(w) ==
    /\ ~crashed
    /\ lpc[w] = "delete"
    /\ lpc' = [lpc EXCEPT ![w] = "done"]
    /\ UNCHANGED <<requests, requestsMutex, config, fatal, reqId, selch, result, stream, received>>
    /\ UNCHANGED redirectVars
    /\ UNCHANGED <<clientVars, deviceVars>>

\* mutant of initiateLoginDelete: the delete is made in the receive branch
\* of the select only, so a call that timed out returns with its entry left
initiateLoginDelete_ReceiveBranchOnly(w) ==
    /\ ~crashed
    /\ lpc[w] = "delete"
    /\ requests' = (IF received[w] > 0 THEN MapDelete(requests, reqId[w]) ELSE requests)
    /\ lpc' = [lpc EXCEPT ![w] = "done"]
    /\ UNCHANGED <<requestsMutex, config, fatal, reqId, selch, result, stream, received>>
    /\ UNCHANGED redirectVars
    /\ UNCHANGED <<clientVars, deviceVars>>

\* delete(ctx.requests, reqId), without the lock; initiateLogin returns and
\* the response stream ends
initiateLoginDelete(w) ==
    /\ ~crashed
    /\ lpc[w] = "delete"
    /\ requests' = MapDelete(requests, reqId[w])
    /\ lpc' = [lpc EXCEPT ![w] = "done"]
    /\ UNCHANGED <<requestsMutex, config, fatal, reqId, selch, result, stream, received>>
    /\ UNCHANGED redirectVars
    /\ UNCHANGED <<clientVars, deviceVars>>

\* ------------------------------------------------ OIDCRedirectHandler
\* a begin-login for id has issued the identifier and has no outcome yet
OpenWait(id) ==
    \E w \in Logins : reqId[w] = id /\ lpc[w] \in {"lock", "select", "waiting"}

\* the select of a begin-login for id took the timeout branch
TimedOut(id) ==
    \E w \in Logins : reqId[w] = id /\ result[w].err = ErrTimeout

\* what is known of the wait for id when a deliver for id is called
WaitStatus(id) ==
    IF OpenWait(id) THEN "open"
    ELSE IF TimedOut(id) THEN "timedout"
    ELSE IF \E w \in Logins : reqId[w] = id THEN "resolved"
    ELSE "never"

\* mutant of Respond: the success branch tests FailedRedirectURI
Respond_SuccessTestsFailedURI(status, cfg) ==
    IF status >= StatusBadRequest
    THEN IF cfg.failedRedirect
         THEN [status |-> StatusPermanentRedirect, location |-> "FailedRedirectURI"]
         ELSE [status |-> status, location |-> "none"]
    ELSE IF cfg.failedRedirect
         THEN [status |-> StatusPermanentRedirect, location |-> "SuccessRedirectURI"]
         ELSE [status |-> StatusOK, location |-> "none"]

\* the middleware part of OIDCRedirectHandler: redirect or raw status
Respond(status, cfg) ==
    IF status >= StatusBadRequest
    THEN IF cfg.failedRedirect
         THEN [status |-> StatusPermanentRedirect, location |-> "FailedRedirectURI"]
         ELSE [status |-> status, location |-> "none"]
    ELSE IF cfg.successRedirect
         THEN [status |-> StatusPermanentRedirect, location |-> "SuccessRedirectURI"]
         ELSE [status |-> StatusOK, location |-> "none"]

\* the redirect handler returns status to its middleware, which answers
Finish(r, status) ==
    /\ statusCode' = [statusCode EXCEPT ![r] = status]
    /\ response' = [response EXCEPT ![r] = Respond(status, config)]
    /\ rpc' = [rpc EXCEPT ![r] = "done"]

\* mutant of OIDCRedirectHandler: the query parameters are validated before
\* the method
OIDCRedirectHandler_ParamsFirst(r) ==
    /\ ~crashed
    /\ rpc[r] = "start"
    /\ Arrived(rpc, r)
    /\ \E method \in {"GET", "POST"}, hasState \in BOOLEAN, st \in States, hasCode \in BOOLEAN :
          /\ (~hasState => st = UnknownState)
          /\ req' = [req EXCEPT ![r] = [method |-> method, hasState |-> hasState,
                                        state |-> st, hasCode |-> hasCode]]
          /\ IF ~hasState \/ ~hasCode
             THEN /\ Finish(r, StatusBadRequest)
                  /\ UNCHANGED <<tokenRes, waitAtArrival>>
             ELSE IF method # "GET"
             THEN /\ Finish(r, StatusMethodNotAllowed)
                  /\ UNCHANGED <<tokenRes, waitAtArrival>>
             ELSE /\ \E answer \in IdPAnswers :
                        tokenRes' = [tokenRes EXCEPT ![r] = oidcGetTokens(r, answer)]
                  /\ waitAtArrival' = [waitAtArrival EXCEPT ![r] = WaitStatus(st)]
                  /\ rpc' = [rpc EXCEPT ![r] = "check"]
                  /\ UNCHANGED <<statusCode, response>>
    /\ UNCHANGED <<requests, requestsMutex, config, fatal>>
    /\ UNCHANGED loginVars
    /\ UNCHANGED <<sendch, deliverErr>>
    /\ UNCHANGED <<clientVars, deviceVars>>

\* mutant of OIDCRedirectHandler: the state is looked up before the exchange
\* and an unknown state is answered 400 without a request to the IdP
OIDCRedirectHandler_LookupFirst(r) ==
    /\ ~crashed
    /\ rpc[r] = "start"
    /\ Arrived(rpc, r)
    /\ \E method \in {"GET", "POST"}, hasState \in BOOLEAN, st \in States, hasCode \in BOOLEAN :
          /\ (~hasState => st = UnknownState)
          /\ req' = [req EXCEPT ![r] = [method |-> method, hasState |-> hasState,
                                        state |-> st, hasCode |-> hasCode]]
          /\ IF method # "GET"
             THEN /\ Finish(r, StatusMethodNotAllowed)
                  /\ UNCHANGED <<tokenRes, waitAtArrival>>
             ELSE IF ~hasState \/ ~hasCode
             THEN /\ Finish(r, StatusBadRequest)
                  /\ UNCHANGED <<tokenRes, waitAtArrival>>
             ELSE IF ~Contains(st)
             THEN /\ Finish(r, StatusBadRequest)
                  /\ UNCHANGED <<tokenRes, waitAtArrival>>
             ELSE /\ \E answer \in IdPAnswers :
                        tokenRes' = [tokenRes EXCEPT ![r] = oidcGetTokens(r, answer)]
                  /\ waitAtArrival' = [waitAtArrival EXCEPT ![r] = WaitStatus(st)]
                  /\ rpc' = [rpc EXCEPT ![r] = "check"]
                  /\ UNCHANGED <<statusCode, response>>
    /\ UNCHANGED <<requests, requestsMutex, config, fatal>>
    /\ UNCHANGED loginVars
    /\ UNCHANGED <<sendch, deliverErr>>
    /\ UNCHANGED <<clientVars, deviceVars>>

\* the request arrives: validation of method, state and code, then
\* oidcGetTokens, then the call of onLoginSuccess or onLoginError
OIDCRedirectHandler(r) ==
    /\ ~crashed
    /\ rpc[r] = "start"
    /\ Arrived(rpc, r)
    /\ \E method \in {"GET", "POST"}, hasState \in BOOLEAN, st \in States, hasCode \in BOOLEAN :
          /\ (~hasState => st = UnknownState)
          /\ req' = [req EXCEPT ![r] = [method |-> method, hasState |-> hasState,
                                        state |-> st, hasCode |-> hasCode]]
          /\ IF method # "GET"
             THEN /\ Finish(r, StatusMethodNotAllowed)
                  /\ UNCHANGED <<tokenRes, waitAtArrival>>
             ELSE IF ~hasState \/ ~hasCode
             THEN /\ Finish(r, StatusBadRequest)
                  /\ UNCHANGED <<tokenRes, waitAtArrival>>
             ELSE /\ \E answer \in IdPAnswers :
                        tokenRes' = [tokenRes EXCEPT ![r] = oidcGetTokens(r, answer)]
                  /\ waitAtArrival' = [waitAtArrival EXCEPT ![r] = WaitStatus(st)]
                  /\ rpc' = [rpc EXCEPT ![r] = "check"]
                  /\ UNCHANGED <<statusCode, response>>
    /\ UNCHANGED <<requests, requestsMutex, config, fatal>>
    /\ UNCHANGED loginVars
    /\ UNCHANGED <<sendch, deliverErr>>
    /\ UNCHANGED <<clientVars, deviceVars>>

\* if _, contains := ctx.requests[reqId]; !contains { return ... }
\* read of the map without the lock
deliverCheck(r) ==
    /\ ~crashed
    /\ rpc[r] = "check"
    /\ IF Contains(req[r].state)
       THEN /\ rpc' = [rpc EXCEPT ![r] = "lock"]
            /\ UNCHANGED <<deliverErr, statusCode, response>>
       ELSE IF tokenRes[r].err = ErrNil
            THEN /\ deliverErr' = [deliverErr EXCEPT ![r] = ErrNoSession]
                 /\ Finish(r, StatusBadRequest)
            ELSE /\ Finish(r, StatusInternalServerError)
                 /\ UNCHANGED deliverErr
    /\ UNCHANGED <<requests, requestsMutex, config, fatal>>
    /\ UNCHANGED loginVars
    /\ UNCHANGED <<req, tokenRes, sendch, waitAtArrival>>
    /\ UNCHANGED <<clientVars, deviceVars>>

\* mutant of deliverLock: the channel is buffered, so the send completes
\* and onLoginSuccess returns nil without any receiver
deliverLock_Buffered(r) ==
    /\ ~crashed
    /\ rpc[r] = "lock"
    /\ requestsMutex = NoHolder
    /\ sendch' = [sendch EXCEPT ![r] = Lookup(req[r].state)]
    /\ IF tokenRes[r].err = ErrNil
       THEN /\ deliverErr' = [deliverErr EXCEPT ![r] = ErrNil]
            /\ Finish(r, StatusOK)
       ELSE /\ Finish(r, StatusInternalServerError)
            /\ UNCHANGED deliverErr
    /\ UNCHANGED <<requests, requestsMutex, config, fatal>>
    /\ UNCHANGED loginVars
    /\ UNCHANGED <<req, tokenRes, waitAtArrival>>
    /\ UNCHANGED <<clientVars, deviceVars>>

\* mutant of deliverLock: the send is a non-blocking one (select with a
\* default case), so without a begin-login in its receive the outcome is
\* dropped and onLoginSuccess returns nil
deliverLock_DropsSend(r) ==
    /\ ~crashed
    /\ rpc[r] = "lock"
    /\ requestsMutex = NoHolder
    /\ sendch' = [sendch EXCEPT ![r] = Lookup(req[r].state)]
    /\ IF \E w \in Logins : lpc[w] = "waiting" /\ selch[w] = Lookup(req[r].state)
       THEN /\ requestsMutex' = <<"redirect", r>>
            /\ rpc' = [rpc EXCEPT ![r] = "sending"]
            /\ UNCHANGED <<deliverErr, statusCode, response>>
       ELSE /\ UNCHANGED requestsMutex
            /\ IF tokenRes[r].err = ErrNil
               THEN /\ deliverErr' = [deliverErr EXCEPT ![r] = ErrNil]
                    /\ Finish(r, StatusOK)
               ELSE /\ Finish(r, StatusInternalServerError)
                    /\ UNCHANGED deliverErr
    /\ UNCHANGED <<requests, config, fatal>>
    /\ UNCHANGED loginVars
    /\ UNCHANGED <<req, tokenRes, waitAtArrival>>
    /\ UNCHANGED <<clientVars, deviceVars>>

\* ctx.requestsMutex.Lock(), then the channel operand ctx.requests[reqId]
\* of the send is evaluated; the send itself blocks with the lock held
deliverLock(r) ==
    /\ ~crashed
    /\ rpc[r] = "lock"
    /\ requestsMutex = NoHolder
    /\ requestsMutex' = <<"redirect", r>>
    /\ sendch' = [sendch EXCEPT ![r] = Lookup(req[r].state)]
    /\ rpc' = [rpc EXCEPT ![r] = "sending"]
    /\ UNCHANGED <<requests, config, fatal>>
    /\ UNCHANGED loginVars
    /\ UNCHANGED <<req, tokenRes, deliverErr, statusCode, response, waitAtArrival>>
    /\ UNCHANGED <<clientVars, deviceVars>>

\* mutant of channelHandoff: the receiver loops back into its select
channelHandoff_ReceiveAgain(r, w) ==
    /\ ~crashed
    /\ rpc[r] = "sending"
    /\ lpc[w] = "waiting"
    /\ sendch[r] # NilChan
    /\ selch[w] = sendch[r]
    /\ result' = [result EXCEPT ![w] = DeliveredResult(r)]
    /\ received' = [received EXCEPT ![w] = @ + 1]
    /\ stream' = [stream EXCEPT ![w] = Append(@, HandlerEvent(DeliveredResult(r)))]
    /\ requestsMutex' = NoHolder
    /\ IF tokenRes[r].err = ErrNil
       THEN /\ deliverErr' = [deliverErr EXCEPT ![r] = ErrNil]
            /\ Finish(r, StatusOK)
       ELSE /\ Finish(r, StatusInternalServerError)
            /\ UNCHANGED deliverErr
    /\ UNCHANGED <<requests, config, fatal, lpc, reqId, selch>>
    /\ UNCHANGED <<req, tokenRes, sendch, waitAtArrival>>
    /\ UNCHANGED <<clientVars, deviceVars>>

\* mutant of channelHandoff: the sender removes the entry once its send has
\* been taken
channelHandoff_SenderDeletes(r, w) ==
    /\ ~crashed
    /\ rpc[r] = "sending"
    /\ lpc[w] = "waiting"
    /\ sendch[r] # NilChan
    /\ selch[w] = sendch[r]
    /\ result' = [result EXCEPT ![w] = DeliveredResult(r)]
    /\ received' = [received EXCEPT ![w] = @ + 1]
    /\ stream' = [stream EXCEPT ![w] = Append(@, HandlerEvent(DeliveredResult(r)))]
    /\ lpc' = [lpc EXCEPT ![w] = "delete"]
    /\ requests' = MapDelete(requests, req[r].state)
    /\ requestsMutex' = NoHolder
    /\ IF tokenRes[r].err = ErrNil
       THEN /\ deliverErr' = [deliverErr EXCEPT ![r] = ErrNil]
            /\ Finish(r, StatusOK)
       ELSE /\ Finish(r, StatusInternalServerError)
            /\ UNCHANGED deliverErr
    /\ UNCHANGED <<config, fatal, reqId, selch>>
    /\ UNCHANGED <<req, tokenRes, sendch, waitAtArrival>>
    /\ UNCHANGED <<clientVars, deviceVars>>

\* ctx.requests[reqId] <- &loginResult{...} meets
\* case loginResult := <-ctx.requests[reqId] on the same unbuffered channel.
\* The receiver runs handler(loginResult), which writes the terminal event;
\* the sender unlocks, returns, and the redirect handler answers.
channelHandoff(r, w) ==
    /\ ~crashed
    /\ rpc[r] = "sending"
    /\ lpc[w] = "waiting"
    /\ sendch[r] # NilChan
    /\ selch[w] = sendch[r]
    /\ result' = [result EXCEPT ![w] = DeliveredResult(r)]
    /\ received' = [received EXCEPT ![w] = @ + 1]
    /\ stream' = [stream EXCEPT ![w] = Append(@, HandlerEvent(DeliveredResult(r)))]
    /\ lpc' = [lpc EXCEPT ![w] = "delete"]
    /\ requestsMutex' = NoHolder
    /\ IF tokenRes[r].err = ErrNil
       THEN /\ deliverErr' = [deliverErr EXCEPT ![r] = ErrNil]
            /\ Finish(r, StatusOK)
       ELSE /\ Finish(r, StatusInternalServerError)
            /\ UNCHANGED deliverErr
    /\ UNCHANGED <<requests, config, fatal, reqId, selch>>
    /\ UNCHANGED <<req, tokenRes, sendch, waitAtArrival>>
    /\ UNCHANGED <<clientVars, deviceVars>>

\* ------------------------------------------------------- map data race
\* goroutine p can access ctx.requests with its next statement
CanWrite(p) ==
    IF p[1] = "login"
    THEN lpc[p[2]] = "delete" \/ (lpc[p[2]] = "lock" /\ requestsMutex = NoHolder)
    ELSE FALSE

CanRead(p) ==
    IF p[1] = "login"
    THEN lpc[p[2]] = "select"
    ELSE rpc[p[2]] = "check" \/ (rpc[p[2]] = "lock" /\ requestsMutex = NoHolder)

Goroutines == {<<"login", w>> : w \in Logins} \cup {<<"redirect", r>> : r \in Redirects}

MapWriters == {p \in Goroutines : CanWrite(p)}

MapReaders == {p \in Goroutines : CanRead(p)}

\* the access goroutine p can make is inside Lock() ... Unlock(): the insert
\* of initiateLogin and the channel operand of the send of a deliverer
Locked(p) ==
    IF p[1] = "login" THEN lpc[p[2]] = "lock" ELSE rpc[p[2]] = "lock"

\* a write of the map by p and another access of it by q that can run at
\* the same time: they are not both inside the mutex
Racing(p, q) ==
    /\ p \in MapWriters
    /\ q \in MapWriters \cup MapReaders
    /\ p # q
    /\ ~(Locked(p) /\ Locked(q))

DataRace == \E p, q \in Goroutines : Racing(p, q)

\* "fatal error: concurrent map writes" / "concurrent map read and map write":
\* the runtime may detect the race and abort the whole process
RuntimeFatal ==
    /\ ~crashed
    /\ \E p, q \in Goroutines : Racing(p, q) /\ fatal' = {p, q}
    /\ UNCHANGED <<requests, requestsMutex, config>>
    /\ UNCHANGED loginVars
    /\ UNCHANGED redirectVars
    /\ UNCHANGED <<clientVars, deviceVars>>

\* ------------------------------------------------------------------ Next
Next ==
    \/ \E w \in Logins : OIDCLoginHandler(w)
    \/ \E w \in Logins : initiateLoginRegister(w)
    \/ \E w \in Logins : initiateLoginSelect(w)
    \/ \E w \in Logins : initiateLoginTimeout(w)
    \/ \E w \in Logins : initiateLoginDelete(w)
    \/ \E r \in Redirects : OIDCRedirectHandler(r)
    \/ \E r \in Redirects : deliverCheck(r)
    \/ \E r \in Redirects : deliverLock(r)
    \/ \E r \in Redirects, w \in Logins : channelHandoff(r, w)
    \/ RuntimeFatal

Spec == Init /\ [][Next]_vars

\* the broker on a Context whose SuccessRedirectURI and FailedRedirectURI were
\* set or left empty before serving
ConfigInit ==
    /\ BrokerInit(AnyConfigs)
    /\ ClientIdle
    /\ DeviceIdle

ConfigSpec == ConfigInit /\ [][Next]_vars

\* every goroutine that can run eventually runs, every request eventually
\* arrives, and the timer of a select that keeps waiting eventually fires;
\* the abort on a detected race is never forced
LoginStep(w) ==
    \/ OIDCLoginHandler(w)
    \/ initiateLoginRegister(w)
    \/ initiateLoginSelect(w)
    \/ initiateLoginTimeout(w)
    \/ initiateLoginDelete(w)

RedirectStep(r) ==
    \/ OIDCRedirectHandler(r)
    \/ deliverCheck(r)
    \/ deliverLock(r)
    \/ \E w \in Logins : channelHandoff(r, w)

FairSpec ==
    /\ Spec
    /\ \A w \in Logins : WF_vars(LoginStep(w))
    /\ \A r \in Redirects : WF_vars(RedirectStep(r))

\* ------------------------------------------- ssoclient: LoginWithOIDCProxy
\* bounds of the streams given to the relay client
MaxMessages == 3

\* the event names of ssoclient/proxy_auth.go
clientEventAuthURI == "auth-uri"
eventOIDCTokens == "oidc-tokens"
clientEventError == "error"

\* the nil error of the client functions; their errors are tuples: the
\* message, then what %s, %d or errors.Join adds to it
NilErr == <<>>

\* fmt.Fprintf(w, "event: %s\ndata: %s\n\n", event, data): the message of an
\* event is what stands between two "\n\n", as its lines; a line is the pair
\* of its first characters ("event: ", "data: " or neither) and the rest
Frame(e) == << <<"event: ", e.event>>, <<"data: ", e.data>> >>

\* the response body made of the events written to a stream
Wire(events) == [i \in DOMAIN events |-> Frame(events[i])]

\* strings.CutPrefix(line, prefix)
CutPrefix(line, prefix) == [after |-> line[2], found |-> line[1] = prefix]

\* parseSSEEvent: strings.Split(rawEvent, "\n"), then the two prefixes
parseSSEEvent(rawEvent) ==
    IF Len(rawEvent) # 2
    THEN [event |-> "", data |-> Empty,
          err |-> <<"event does not contain one or both fields 'event' and 'data' or has more fields">>]
    ELSE IF ~CutPrefix(rawEvent[1], "event: ").found
    THEN [event |-> "", data |-> Empty,
          err |-> <<"SSE event field 'event' must start with 'event: '">>]
    ELSE IF ~CutPrefix(rawEvent[2], "data: ").found
    THEN [event |-> "", data |-> Empty,
          err |-> <<"SSE event field 'data' must start with 'data: '">>]
    ELSE [event |-> CutPrefix(rawEvent[1], "event: ").after,
          data |-> CutPrefix(rawEvent[2], "data: ").after,
          err |-> NilErr]

\* keys a JSON object of the model can have
JSONKeys == {"access_token", "refresh_token", "expiration", "expires_in"}

\* data is the text of a JSON object
IsJSONObject(data) ==
    /\ Len(data) % 2 = 0
    /\ \A i \in 1..(Len(data) \div 2) : data[2 * i - 1] \in JSONKeys

\* the value json.Unmarshal stores in the field tagged key: the member of
\* that name, and the value the field had when the object has no such member
Member(data, key, old) ==
    IF \E i \in 1..(Len(data) \div 2) : data[2 * i - 1] = key
    THEN data[2 * (CHOOSE i \in 1..(Len(data) \div 2) : data[2 * i - 1] = key)]
    ELSE old

\* mutant of Unmarshal: the object is decoded into a fresh proxyTokensEvent,
\* so a member the object does not have is zero
Unmarshal_IntoFresh(data, into) ==
    [AccessToken |-> Member(data, "access_token", Empty),
     RefreshToken |-> Member(data, "refresh_token", Empty),
     Expiration |-> Member(data, "expiration", 0)]

\* json.Unmarshal([]byte(data), &tokenEvent) on an object
Unmarshal(data, into) ==
    [AccessToken |-> Member(data, "access_token", into.AccessToken),
     RefreshToken |-> Member(data, "refresh_token", into.RefreshToken),
     Expiration |-> Member(data, "expiration", into.Expiration)]

\* mutant of onEventReceived: the error event is taken note of without
\* failing the call
onEventReceived_ErrorNotReturned(c, event, data) ==
    IF event = clientEventAuthURI
    THEN [tokenEvent |-> c.tokenEvent, loginURIs |-> Append(c.loginURIs, data),
          err |-> NilErr]
    ELSE IF event = eventOIDCTokens
    THEN IF IsJSONObject(data)
         THEN [tokenEvent |-> Unmarshal(data, c.tokenEvent), loginURIs |-> c.loginURIs,
               err |-> NilErr]
         ELSE [tokenEvent |-> c.tokenEvent, loginURIs |-> c.loginURIs,
               err |-> <<"received access and refresh token in invalid format">>]
    ELSE IF event = clientEventError
    THEN [tokenEvent |-> c.tokenEvent, loginURIs |-> c.loginURIs, err |-> NilErr]
    ELSE [tokenEvent |-> c.tokenEvent, loginURIs |-> c.loginURIs,
          err |-> <<"encountered unknown login event '%s'", event>>]

\* the callback LoginWithOIDCProxy gives to consumeSSEFromHTTPEventStream,
\* on the client state c = [tokenEvent, loginURIs]
onEventReceived(c, event, data) ==
    IF event = clientEventAuthURI
    THEN [tokenEvent |-> c.tokenEvent, loginURIs |-> Append(c.loginURIs, data),
          err |-> NilErr]
    ELSE IF event = eventOIDCTokens
    THEN IF IsJSONObject(data)
         THEN [tokenEvent |-> Unmarshal(data, c.tokenEvent), loginURIs |-> c.loginURIs,
               err |-> NilErr]
         ELSE [tokenEvent |-> c.tokenEvent, loginURIs |-> c.loginURIs,
               err |-> <<"received access and refresh token in invalid format">>]
    ELSE IF event = clientEventError
    THEN [tokenEvent |-> c.tokenEvent, loginURIs |-> c.loginURIs,
          err |-> <<"received error '%s'", data>>]
    ELSE [tokenEvent |-> c.tokenEvent, loginURIs |-> c.loginURIs,
          err |-> <<"encountered unknown login event '%s'", event>>]

\* one turn of the loop of consumeSSEFromHTTPEventStream on a scanned message
scanMessage(c, rawEvent) ==
    LET parsed == parseSSEEvent(rawEvent)
        called == onEventReceived(c, parsed.event, parsed.data)
    IN  IF parsed.err # NilErr
        THEN [tokenEvent |-> c.tokenEvent, loginURIs |-> c.loginURIs,
              err |-> <<"received invalid login event from proxy", parsed.err>>]
        ELSE IF called.err # NilErr
        THEN [tokenEvent |-> called.tokenEvent, loginURIs |-> called.loginURIs,
              err |-> <<"an error occurred during consuming a login event", called.err>>]
        ELSE called

\* &LoginResult{...} built from tokenEvent
LoginResultOf(t) ==
    [isNil |-> FALSE, AccessToken |-> t.AccessToken, RefreshToken |-> t.RefreshToken,
     Expiration |-> t.Expiration]

\* http.Get(proxyLoginURI) and the check of the status
LoginWithOIDCProxy ==
    /\ cpc = "start"
    /\ IF httpStatus = 0
       THEN /\ loginErr' = <<"failed to execute HTTP login request">>
            /\ cpc' = "done"
       ELSE IF httpStatus # StatusOK
       THEN /\ loginErr' = <<"HTTP login response status was %d, expected 200", httpStatus>>
            /\ cpc' = "done"
       ELSE /\ cpc' = "scan"
            /\ UNCHANGED loginErr
    /\ UNCHANGED <<httpStatus, httpBody, scanned, tokenEvent, loginURIs, loginResult>>
    /\ UNCHANGED <<brokerVars, deviceVars, codecVars>>

\* scanner.Scan() hands in the next message; it is parsed and given to the
\* callback; an error ends the loop and LoginWithOIDCProxy returns it with
\* the LoginResult built from tokenEvent
consumeSSEFromHTTPEventStream ==
    /\ cpc = "scan"
    /\ scanned < Len(httpBody)
    /\ LET c == scanMessage([tokenEvent |-> tokenEvent, loginURIs |-> loginURIs],
                            httpBody[scanned + 1])
       IN  /\ scanned' = scanned + 1
           /\ tokenEvent' = c.tokenEvent
           /\ loginURIs' = c.loginURIs
           /\ IF c.err # NilErr
              THEN /\ loginErr' = c.err
                   /\ loginResult' = LoginResultOf(c.tokenEvent)
                   /\ cpc' = "done"
              ELSE UNCHANGED <<loginErr, loginResult, cpc>>
    /\ UNCHANGED <<httpStatus, httpBody>>
    /\ UNCHANGED <<brokerVars, deviceVars, codecVars>>

\* scanner.Scan() returns false at the end of the body with scanner.Err()
\* nil: consumeSSEFromHTTPEventStream returns nil and LoginWithOIDCProxy
\* returns the LoginResult built from tokenEvent
streamEnds ==
    /\ cpc = "scan"
    /\ scanned = Len(httpBody)
    /\ loginErr' = NilErr
    /\ loginResult' = LoginResultOf(tokenEvent)
    /\ cpc' = "done"
    /\ UNCHANGED <<httpStatus, httpBody, scanned, tokenEvent, loginURIs>>
    /\ UNCHANGED <<brokerVars, deviceVars, codecVars>>

\* what the IdP can have issued
TokenSets ==
    {[AccessToken |-> <<"access", r>>, RefreshToken |-> <<"refresh", r>>, Expiration |-> 600] :
        r \in Redirects}

\* messages a proxy can send: the events of the broker, the token event of
\* the client's vocabulary, an event of another name, a token event that is
\* no JSON, a token event whose object has an access_token member only, and
\* messages that are no events
Messages ==
    {Frame(Event(eventAuthURI, <<"state", 1>>)),
     Frame(Event(eventError, <<"mock sso proxy error">>)),
     Frame(Event("ping", <<"keep-alive">>)),
     Frame(Event(eventOIDCTokens, <<"no json">>)),
     Frame(Event(eventOIDCTokens, <<"access_token", <<"access", 0>>>>)),
     << <<"event: ", eventError>> >>,
     << <<"", "auth-uri">>, <<"data: ", <<"state", 1>>>> >>,
     << <<"event: ", eventError>>, <<"", "mock sso proxy error">> >>}
    \cup {Frame(Event(eventOIDCTokens, Marshal(t))) : t \in TokenSets}
    \cup {Frame(Event(eventLoggedIn, Marshal(t))) : t \in TokenSets}

RECURSIVE Bodies(_)
Bodies(n) ==
    IF n = 0 THEN {<<>>}
    ELSE Bodies(n - 1) \cup {Append(b, m) : b \in {x \in Bodies(n - 1) : Len(x) = n - 1}, m \in Messages}

\* a relay client at its call, whatever the proxy answers
ClientInit ==
    /\ BrokerInit({c \in DefaultConfigs : c.authURIValid})
    /\ DeviceIdle
    /\ CodecIdle
    /\ cpc = "start"
    /\ httpStatus \in {0, StatusOK, StatusInternalServerError}
    /\ httpBody \in Bodies(MaxMessages)
    /\ httpStatus # StatusOK => httpBody = <<>>
    /\ scanned = 0
    /\ tokenEvent = NoTokenEvent
    /\ loginURIs = <<>>
    /\ loginResult = NilLoginResult
    /\ loginErr = NilErr

ClientNext ==
    \/ LoginWithOIDCProxy
    \/ consumeSSEFromHTTPEventStream
    \/ streamEnds

ClientSpec == ClientInit /\ [][ClientNext]_vars

\* the whole of consumeSSEFromHTTPEventStream on a body
RECURSIVE consumeAll(_, _)
consumeAll(c, body) ==
    IF body = <<>> THEN [tokenEvent |-> c.tokenEvent, loginURIs |-> c.loginURIs, err |-> NilErr]
    ELSE LET c2 == scanMessage(c, Head(body))
         IN  IF c2.err # NilErr THEN c2 ELSE consumeAll(c2, Tail(body))

\* what LoginWithOIDCProxy returns for a 200 response with this body
RelayClient(body) ==
    LET c == consumeAll([tokenEvent |-> NoTokenEvent, loginURIs |-> <<>>], body)
    IN  [result |-> LoginResultOf(c.tokenEvent), err |-> c.err, loginURIs |-> c.loginURIs]

\* ------------------------------------------- the event stream as bytes
\* bound of the chunks written to one connection
MaxChunks == 2

\* bufio.NewScanner: the buffer of the scanner grows to bufio.MaxScanTokenSize
\* (64 * 1024) bytes and no further
MaxScanTokenSize == 65536

\* a text is a sequence of runs <<character, count>>: count times that byte
Text(chars) == [i \in DOMAIN chars |-> <<chars[i], 1>>]

Run(c, n) == << <<c, n>> >>

NL == <<"\n", 1>>

\* len(text) in bytes
RECURSIVE ByteLen(_)
ByteLen(text) == IF text = <<>> THEN 0 ELSE Head(text)[2] + ByteLen(Tail(text))

eventPrefix == Text(<<"e", "v", "e", "n", "t", ":", " ">>)

dataPrefix == Text(<<"d", "a", "t", "a", ":", " ">>)

\* fmt.Fprintf(w, "event: %s\ndata: %s\n\n", event, data)
Fprintf(event, data) ==
    eventPrefix \o event \o <<NL>> \o dataPrefix \o data \o <<NL, NL>>

\* bytes.Index(data, []byte("\n\n")): the place of the first of the two line
\* ends, counted from 1, and 0 when there is none
TwoLineEnds(data) ==
    LET at == {i \in 1..(Len(data) - 1) : data[i] = NL /\ data[i + 1] = NL}
    IN  IF at = {} THEN 0 ELSE CHOOSE i \in at : \A j \in at : i <= j

\* the split function given to scanner.Split
SplitFunc(data, atEOF) ==
    IF atEOF /\ Len(data) = 0
    THEN [advance |-> 0, hasToken |-> FALSE, token |-> <<>>]
    ELSE IF TwoLineEnds(data) > 0
    THEN [advance |-> TwoLineEnds(data) + 1, hasToken |-> TRUE,
          token |-> SubSeq(data, 1, TwoLineEnds(data) - 1)]
    ELSE IF atEOF
    THEN [advance |-> Len(data), hasToken |-> TRUE, token |-> data]
    ELSE [advance |-> 0, hasToken |-> FALSE, token |-> <<>>]

\* scanner.Scan() on the bytes that are written and not yet taken: a token
\* when the split function finds one in the buffer, ErrTooLong when the
\* buffer is full without one, the end of the stream, or a wait for bytes
Scan(data, atEOF) ==
    LET split == SplitFunc(data, atEOF)
        taken == ByteLen(SubSeq(data, 1, split.advance))
        fits == IF TwoLineEnds(data) > 0 THEN taken <= MaxScanTokenSize
                ELSE taken < MaxScanTokenSize
    IN  IF split.hasToken /\ fits
        THEN [kind |-> "token", token |-> split.token,
              rest |-> SubSeq(data, split.advance + 1, Len(data))]
        ELSE IF ByteLen(data) >= MaxScanTokenSize
        THEN [kind |-> "ErrTooLong", token |-> <<>>, rest |-> data]
        ELSE IF atEOF /\ Len(data) = 0
        THEN [kind |-> "EOF", token |-> <<>>, rest |-> data]
        ELSE [kind |-> "wait", token |-> <<>>, rest |-> data]

\* strings.Split(text, "\n")
RECURSIVE StringsSplit(_)
StringsSplit(text) ==
    LET at == {i \in 1..Len(text) : text[i] = NL}
        first == CHOOSE i \in at : \A j \in at : i <= j
    IN  IF at = {} THEN <<text>>
        ELSE <<SubSeq(text, 1, first - 1)>> \o StringsSplit(SubSeq(text, first + 1, Len(text)))

\* strings.CutPrefix(text, prefix)
StringsCutPrefix(text, prefix) ==
    IF Len(text) >= Len(prefix) /\ SubSeq(text, 1, Len(prefix)) = prefix
    THEN [after |-> SubSeq(text, Len(prefix) + 1, Len(text)), found |-> TRUE]
    ELSE [after |-> text, found |-> FALSE]

\* parseSSEEvent on the text of a message
ParseRawEvent(rawEvent) ==
    LET parts == StringsSplit(rawEvent)
    IN  IF Len(parts) # 2
        THEN [event |-> <<>>, data |-> <<>>,
              err |-> <<"event does not contain one or both fields 'event' and 'data' or has more fields">>]
        ELSE IF ~StringsCutPrefix(parts[1], eventPrefix).found
        THEN [event |-> <<>>, data |-> <<>>,
              err |-> <<"SSE event field 'event' must start with 'event: '">>]
        ELSE IF ~StringsCutPrefix(parts[2], dataPrefix).found
        THEN [event |-> <<>>, data |-> <<>>,
              err |-> <<"SSE event field 'data' must start with 'data: '">>]
        ELSE [event |-> StringsCutPrefix(parts[1], eventPrefix).after,
              data |-> StringsCutPrefix(parts[2], dataPrefix).after,
              err |-> NilErr]

\* the sender has written everything and closed the connection
AtEOF == written = Len(outbox)

\* the sender writes its next chunk to the connection
sendSSEEventWrite ==
    /\ kpc = "run"
    /\ written < Len(outbox)
    /\ written' = written + 1
    /\ unread' = unread \o outbox[written + 1].text
    /\ UNCHANGED <<kpc, outbox, handed, consumeErr>>
    /\ UNCHANGED <<brokerVars, deviceVars, relayVars>>

\* mutant of consumeScan: a message that does not parse is skipped and the
\* loop goes on with the next one
consumeScan_SkipsInvalid ==
    /\ kpc = "run"
    /\ LET scan == Scan(unread, AtEOF)
           parsed == ParseRawEvent(scan.token)
       IN  /\ scan.kind \in {"token", "ErrTooLong"}
           /\ unread' = scan.rest
           /\ IF scan.kind = "ErrTooLong"
              THEN /\ consumeErr' = <<"an error occurred while reading login events",
                                      <<"bufio.Scanner: token too long">>>>
                   /\ kpc' = "done"
                   /\ UNCHANGED handed
              ELSE IF parsed.err # NilErr
              THEN UNCHANGED <<consumeErr, kpc, handed>>
              ELSE /\ handed' = Append(handed, <<parsed.event, parsed.data>>)
                   /\ UNCHANGED <<consumeErr, kpc>>
    /\ UNCHANGED <<outbox, written>>
    /\ UNCHANGED <<brokerVars, deviceVars, relayVars>>

\* one turn of the loop of consumeSSEFromHTTPEventStream with a callback
\* that takes note of its arguments and returns nil: scanner.Scan() hands in
\* a message, which is parsed and given to the callback, or it fails
consumeScan ==
    /\ kpc = "run"
    /\ LET scan == Scan(unread, AtEOF)
           parsed == ParseRawEvent(scan.token)
       IN  /\ scan.kind \in {"token", "ErrTooLong"}
           /\ unread' = scan.rest
           /\ IF scan.kind = "ErrTooLong"
              THEN /\ consumeErr' = <<"an error occurred while reading login events",
                                      <<"bufio.Scanner: token too long">>>>
                   /\ kpc' = "done"
                   /\ UNCHANGED handed
              ELSE IF parsed.err # NilErr
              THEN /\ consumeErr' = <<"received invalid login event from proxy", parsed.err>>
                   /\ kpc' = "done"
                   /\ UNCHANGED handed
              ELSE /\ handed' = Append(handed, <<parsed.event, parsed.data>>)
                   /\ UNCHANGED <<consumeErr, kpc>>
    /\ UNCHANGED <<outbox, written>>
    /\ UNCHANGED <<brokerVars, deviceVars, relayVars>>

\* scanner.Scan() returns false at the end of the stream, scanner.Err() is nil
consumeEnd ==
    /\ kpc = "run"
    /\ Scan(unread, AtEOF).kind = "EOF"
    /\ consumeErr' = NilErr
    /\ kpc' = "done"
    /\ UNCHANGED <<outbox, written, unread, handed>>
    /\ UNCHANGED <<brokerVars, deviceVars, relayVars>>

\* event names and payloads: empty, one letter, a payload that reads like a
\* field prefix, one with a line end in it, and two long ones, of which the
\* first with an empty event name fills the buffer of the scanner exactly
Fields ==
    {<<>>, Text(<<"a">>), dataPrefix, Text(<<"a", "\n", "b">>),
     Run("x", MaxScanTokenSize - 16), Run("x", MaxScanTokenSize)}

\* what sendSSEEvent writes for an event
Framed(event, data) ==
    [text |-> Fprintf(event, data), framed |-> TRUE, event |-> event, data |-> data]

\* bytes of a sender that are not an event
Raw(text) == [text |-> text, framed |-> FALSE, event |-> <<>>, data |-> <<>>]

\* messages that are not events: one line, three lines, a first line without
\* `event: `, a second line without `data: `; and an event of which the two
\* closing line ends are missing
RawChunks ==
    {Raw(eventPrefix \o Text(<<"a">>) \o <<NL, NL>>),
     Raw(eventPrefix \o Text(<<"a">>) \o <<NL>> \o dataPrefix \o <<NL>> \o dataPrefix \o <<NL, NL>>),
     Raw(Text(<<"a">>) \o <<NL>> \o dataPrefix \o Text(<<"a">>) \o <<NL, NL>>),
     Raw(eventPrefix \o Text(<<"a">>) \o <<NL>> \o Text(<<"a">>) \o <<NL, NL>>),
     Raw(eventPrefix \o Text(<<"a">>) \o <<NL>> \o dataPrefix \o Text(<<"a">>))}

Chunks == {Framed(e, d) : e \in Fields, d \in Fields} \cup RawChunks

RECURSIVE ChunkSeqs(_)
ChunkSeqs(n) ==
    IF n = 0 THEN {<<>>}
    ELSE ChunkSeqs(n - 1)
         \cup {Append(b, m) : b \in {x \in ChunkSeqs(n - 1) : Len(x) = n - 1}, m \in Chunks}

\* a connection on which a sender writes up to MaxChunks chunks, read by
\* consumeSSEFromHTTPEventStream
CodecInit ==
    /\ BrokerInit({c \in DefaultConfigs : c.authURIValid})
    /\ DeviceIdle
    /\ RelayIdle
    /\ kpc = "run"
    /\ outbox \in ChunkSeqs(MaxChunks)
    /\ written = 0
    /\ unread = <<>>
    /\ handed = <<>>
    /\ consumeErr = NilErr

CodecNext ==
    \/ sendSSEEventWrite
    \/ consumeScan
    \/ consumeEnd

CodecSpec == CodecInit /\ [][CodecNext]_vars

\* ------------------------------------------ ssoclient: LoginWithDeviceAuth
\* bounds of the device-authorization response
MaxInterval == 6
MaxExpiresIn == 20

\* the interval is a signed JSON number: the smallest one considered is
\* -MaxNegInterval
MaxNegInterval == 2

\* the turns of the poll loop that are followed: more than any call with a
\* positive interval takes (the interval is at least one second, so at most
\* expires_in + 1 turns), so the cut shortens only calls whose accumulated
\* time does not grow.  (timePassed is a 64-bit int that wraps after 2^63
\* turns of such a call; no run followed here comes near it.)
MaxPolls == MaxExpiresIn + 4

\* the poll interval used when the response has none, and what slow_down
\* adds to the interval
DefaultInterval == 5
SlowDownIncrement == 5

authorizationPendingError == "authorization_pending"
slowDownError == "slow_down"
accessDeniedError == "access_denied"
expiredTokenError == "expired_token"

\* what the token endpoint can answer to a poll: 200 with tokens, an error
\* response with one of the four codes or with another code, a body that is
\* no JSON, or no answer at all
Answers ==
    {"tokens", authorizationPendingError, slowDownError, accessDeniedError,
     expiredTokenError, "invalid_grant", "no json", "no response"}

\* token responses the endpoint can send with status 200
TokenResponses ==
    {[AccessToken |-> <<"access", 1>>, RefreshToken |-> <<"refresh", 1>>, ExpiresIn |-> 600],
     [AccessToken |-> <<"access", 2>>, RefreshToken |-> <<"refresh", 2>>, ExpiresIn |-> 300]}

\* mutant of DeviceLoginResult: the two tokens change places
DeviceLoginResult_TokensSwapped(tokenRes_) ==
    [isNil |-> FALSE, AccessToken |-> tokenRes_.RefreshToken,
     RefreshToken |-> tokenRes_.AccessToken, Expiration |-> tokenRes_.ExpiresIn]

\* &LoginResult{...} built by LoginWithDeviceAuth from tokenRes
DeviceLoginResult(tokenRes_) ==
    [isNil |-> FALSE, AccessToken |-> tokenRes_.AccessToken,
     RefreshToken |-> tokenRes_.RefreshToken, Expiration |-> tokenRes_.ExpiresIn]

\* what pollTokensEndpoint returns after this answer; NilErr when it goes on
\* polling or returns the tokens
AnswerErr(answer) ==
    IF answer = "no response"
    THEN <<"an error occurred while after polling /token endpoint">>
    ELSE IF answer = "no json"
    THEN <<"received invalid format of error poll response, could not deserialize JSON body">>
    ELSE IF answer = "tokens" THEN NilErr
    ELSE IF answer = slowDownError THEN NilErr
    ELSE IF answer = accessDeniedError
    THEN <<"can't poll /token endpoint, access was denied">>
    ELSE IF answer = expiredTokenError
    THEN <<"authorization attempt expired">>
    ELSE IF answer # authorizationPendingError
    THEN <<"received unknown error code %s while polling for access and refresh token", answer>>
    ELSE NilErr

\* mutant of LoginWithDeviceAuth: the interval of the response is used as it
\* is, also when it is 0
LoginWithDeviceAuth_NoDefault ==
    /\ dpc = "start"
    /\ \E answered \in BOOLEAN :
          IF answered
          THEN /\ pollInterval' = deviceRes.Interval
               /\ maxPollTime' = deviceRes.ExpiresIn
               /\ timePassed' = 0
               /\ verificationCalls' =
                     Append(verificationCalls,
                            <<deviceRes.VerificationURI, deviceRes.UserCode>>)
               /\ dpc' = "poll"
               /\ UNCHANGED pollErr
          ELSE /\ pollErr' = <<"failed to execute Device Authorization request">>
               /\ dpc' = "done"
               /\ UNCHANGED <<pollInterval, maxPollTime, timePassed, verificationCalls>>
    /\ UNCHANGED <<deviceRes, lastSleep, requestsSent, slowDowns, lastAnswer, pendings,
                   tokenSuccess, deviceLoginResult>>
    /\ UNCHANGED <<brokerVars, clientVars>>

\* callDeviceAuthorizationEndpoint fails and its error is returned, or it
\* returns deviceRes: verificationURIReceived is called, the interval is
\* defaulted and pollTokensEndpoint is entered
LoginWithDeviceAuth ==
    /\ dpc = "start"
    /\ \E answered \in BOOLEAN :
          IF answered
          THEN /\ pollInterval' = (IF deviceRes.Interval = 0 THEN DefaultInterval
                                   ELSE deviceRes.Interval)
               /\ maxPollTime' = deviceRes.ExpiresIn
               /\ timePassed' = 0
               /\ verificationCalls' =
                     Append(verificationCalls,
                            <<deviceRes.VerificationURI, deviceRes.UserCode>>)
               /\ dpc' = "poll"
               /\ UNCHANGED pollErr
          ELSE /\ pollErr' = <<"failed to execute Device Authorization request">>
               /\ dpc' = "done"
               /\ UNCHANGED <<pollInterval, maxPollTime, timePassed, verificationCalls>>
    /\ UNCHANGED <<deviceRes, lastSleep, requestsSent, slowDowns, lastAnswer, pendings,
                   tokenSuccess, deviceLoginResult>>
    /\ UNCHANGED <<brokerVars, clientVars>>

\* mutant of pollTokensEndpoint: slow_down sets the interval to 5 seconds
pollTokensEndpoint_SlowDownSets ==
    /\ dpc = "poll"
    /\ timePassed <= maxPollTime
    /\ requestsSent < MaxPolls
    /\ lastSleep' = pollInterval
    /\ timePassed' = timePassed + pollInterval
    /\ requestsSent' = requestsSent + 1
    /\ \E answer \in Answers :
          /\ lastAnswer' = answer
          /\ pollErr' = AnswerErr(answer)
          /\ dpc' = (IF answer = "tokens" \/ AnswerErr(answer) # NilErr THEN "done" ELSE "poll")
          /\ IF answer = slowDownError
             THEN /\ pollInterval' = SlowDownIncrement
                  /\ slowDowns' = slowDowns + 1
             ELSE UNCHANGED <<pollInterval, slowDowns>>
          /\ pendings' = (IF answer = authorizationPendingError THEN pendings + 1
                          ELSE pendings)
          /\ IF answer = "tokens"
             THEN \E resBody \in TokenResponses :
                     /\ tokenSuccess' = resBody
                     /\ deviceLoginResult' = DeviceLoginResult(resBody)
             ELSE UNCHANGED <<tokenSuccess, deviceLoginResult>>
    /\ UNCHANGED <<deviceRes, maxPollTime, verificationCalls>>
    /\ UNCHANGED <<brokerVars, clientVars>>

\* mutant of pollTokensEndpoint: the access_denied branch is missing, so the
\* code is taken like authorization_pending
pollTokensEndpoint_DeniedGoesOn ==
    /\ dpc = "poll"
    /\ timePassed <= maxPollTime
    /\ requestsSent < MaxPolls
    /\ lastSleep' = pollInterval
    /\ timePassed' = timePassed + pollInterval
    /\ requestsSent' = requestsSent + 1
    /\ \E answer \in Answers :
          /\ lastAnswer' = answer
          /\ pollErr' = (IF answer = accessDeniedError THEN NilErr ELSE AnswerErr(answer))
          /\ dpc' = (IF answer = "tokens" \/ pollErr' # NilErr THEN "done" ELSE "poll")
          /\ IF answer = slowDownError
             THEN /\ pollInterval' = pollInterval + SlowDownIncrement
                  /\ slowDowns' = slowDowns + 1
             ELSE UNCHANGED <<pollInterval, slowDowns>>
          /\ pendings' = (IF answer = authorizationPendingError THEN pendings + 1
                          ELSE pendings)
          /\ IF answer = "tokens"
             THEN \E resBody \in TokenResponses :
                     /\ tokenSuccess' = resBody
                     /\ deviceLoginResult' = DeviceLoginResult(resBody)
             ELSE UNCHANGED <<tokenSuccess, deviceLoginResult>>
    /\ UNCHANGED <<deviceRes, maxPollTime, verificationCalls>>
    /\ UNCHANGED <<brokerVars, clientVars>>

\* one turn of the loop of pollTokensEndpoint: the sleep, the request, and
\* what the answer makes of the interval and of the call
pollTokensEndpoint ==
    /\ dpc = "poll"
    /\ timePassed <= maxPollTime
    /\ requestsSent < MaxPolls
    /\ lastSleep' = pollInterval
    /\ timePassed' = timePassed + pollInterval
    /\ requestsSent' = requestsSent + 1
    /\ \E answer \in Answers :
          /\ lastAnswer' = answer
          /\ pollErr' = AnswerErr(answer)
          /\ dpc' = (IF answer = "tokens" \/ AnswerErr(answer) # NilErr THEN "done" ELSE "poll")
          /\ IF answer = slowDownError
             THEN /\ pollInterval' = pollInterval + SlowDownIncrement
                  /\ slowDowns' = slowDowns + 1
             ELSE UNCHANGED <<pollInterval, slowDowns>>
          /\ pendings' = (IF answer = authorizationPendingError THEN pendings + 1
                          ELSE pendings)
          /\ IF answer = "tokens"
             THEN \E resBody \in TokenResponses :
                     /\ tokenSuccess' = resBody
                     /\ deviceLoginResult' = DeviceLoginResult(resBody)
             ELSE UNCHANGED <<tokenSuccess, deviceLoginResult>>
    /\ UNCHANGED <<deviceRes, maxPollTime, verificationCalls>>
    /\ UNCHANGED <<brokerVars, clientVars>>

\* the loop condition timePassed <= maxPollTime is false
pollExpired ==
    /\ dpc = "poll"
    /\ ~(timePassed <= maxPollTime)
    /\ pollErr' = <<"authorization attempt expired">>
    /\ dpc' = "done"
    /\ UNCHANGED <<deviceRes, pollInterval, maxPollTime, timePassed, lastSleep,
                   requestsSent, slowDowns, lastAnswer, pendings, tokenSuccess,
                   deviceLoginResult, verificationCalls>>
    /\ UNCHANGED <<brokerVars, clientVars>>

\* a device-grant client at its call, whatever interval and expires_in the
\* device-authorization endpoint returns
DeviceInit ==
    /\ BrokerInit({c \in DefaultConfigs : c.authURIValid})
    /\ ClientIdle
    /\ dpc = "start"
    /\ deviceRes \in [Interval : -MaxNegInterval..MaxInterval, ExpiresIn : 0..MaxExpiresIn,
                       VerificationURI : {<<"verification_uri">>},
                       UserCode : {<<"user_code">>}]
    /\ pollInterval = 0
    /\ maxPollTime = 0
    /\ timePassed = 0
    /\ lastSleep = 0
    /\ requestsSent = 0
    /\ slowDowns = 0
    /\ lastAnswer = "none"
    /\ pollErr = NilErr
    /\ pendings = 0
    /\ tokenSuccess = NoTokenResponse
    /\ deviceLoginResult = NilLoginResult
    /\ verificationCalls = <<>>

DeviceNext ==
    \/ LoginWithDeviceAuth
    \/ pollTokensEndpoint
    \/ pollExpired

DeviceSpec == DeviceInit /\ [][DeviceNext]_vars

\* either client login operation is called: the relay client on whatever
\* the proxy answers, or the device-grant client on whatever the IdP answers
ClientsInit == ClientInit \/ DeviceInit

ClientsNext == ClientNext \/ DeviceNext

ClientsSpec == ClientsInit /\ [][ClientsNext]_vars

\* --------------------------------------------------------------- helpers
\* login w passed generateReqId and url.Parse: its stream does not short-circuit
Issued(w) == reqId[w] # UnknownState

\* no two begin-logins were given the same identifier
DistinctIds ==
    \A w1, w2 \in Logins : (w1 # w2 /\ Issued(w1)) => reqId[w1] # reqId[w2]

IsTerminal(e) == e.event \in {eventLoggedIn, eventError}

TerminalEvents(w) == Len(SelectSeq(stream[w], IsTerminal))

\* redirect r passed validation and called onLoginSuccess or onLoginError
Called(r) == tokenRes[r].err # "none"

\* the send of redirect r can never complete: it is on the nil channel, or
\* every begin-login is past its select or receives from another channel
Stuck(r) ==
    /\ rpc[r] = "sending"
    /\ \/ sendch[r] = NilChan
       \/ \A w \in Logins : \/ lpc[w] \in {"delete", "done"}
                            \/ lpc[w] = "waiting" /\ selch[w] # sendch[r]

\* ----------------------------------------------------------------- claims

\* C1: when initiateLogin returns, its handler has been invoked exactly once,
\* with the delivered result or with the timeout failure, and the identifier
\* of the call is absent from ctx.requests.
C1_ExactlyOneOutcomeThenAbsent ==
    [][\A w \in Logins :
          (lpc[w] # "done" /\ lpc'[w] = "done" /\ Issued(w)') =>
             /\ TerminalEvents(w)' = 1
             /\ result'[w].err # "none"
             /\ stream'[w][Len(stream'[w])] = HandlerEvent(result'[w])
             /\ received'[w] = (IF result'[w].err = ErrTimeout THEN 0 ELSE 1)
             /\ ~Contains(reqId[w])']_vars

\* both paths of C1 happened: one call returned after a delivery, another
\* after its timeout
C1_Witness ==
    \E w1, w2 \in Logins :
        /\ lpc[w1] = "done" /\ received[w1] = 1 /\ result[w1].err = ErrNil
        /\ lpc[w2] = "done" /\ result[w2].err = ErrTimeout

\* C2: a begin-login takes at most one outcome from its channel and writes at
\* most one terminal event, however many redirects carry its identifier.
C2_AtMostOneOutcome ==
    \A w \in Logins : received[w] <= 1 /\ TerminalEvents(w) <= 1

\* two redirects carried the identifier of one login: one was consumed, the
\* other passed the lookup and competes for the same wait
C2_Witness ==
    \E w \in Logins : \E r1, r2 \in Redirects :
        /\ r1 # r2 /\ Issued(w)
        /\ req[r1].state = reqId[w] /\ req[r2].state = reqId[w]
        /\ received[w] = 1 /\ rpc[r1] = "done" /\ statusCode[r1] = StatusOK
        /\ rpc[r2] = "sending"

NeverRegistered(id) == \A w \in Logins : reqId[w] # id

\* when redirect r arrived the wait for its state was over (resolved or timed
\* out), or no begin-login has been given its state at all
Stale(r) ==
    \/ waitAtArrival[r] \in {"resolved", "timedout"}
    \/ NeverRegistered(req[r].state)

\* C4: a deliver for an identifier that was never registered, is already
\* resolved or already timed out never blocks, returns (onLoginSuccess with
\* an error) and performs no send.
C4_StaleDeliverNeverBlocks ==
    \A r \in Redirects :
        (Called(r) /\ DistinctIds /\ Stale(r)) =>
           /\ ~Stuck(r)
           /\ rpc[r] = "done" =>
                 /\ sendch[r] = NilChan
                 /\ tokenRes[r].err = ErrNil => deliverErr[r] = ErrNoSession

\* C5: timeout and delivery exclude each other: no onLoginSuccess for the
\* identifier of a login that took the timeout branch returns nil, and an
\* onLoginSuccess that returned nil handed its result to a login waiting
\* under that identifier, whose outcome is that result and not the timeout.
C5_TimeoutXorDelivery ==
    /\ \A r \in Redirects :
          deliverErr[r] = ErrNil =>
             \E w \in Logins :
                 /\ reqId[w] = req[r].state
                 /\ received[w] = 1
                 /\ result[w] = DeliveredResult(r)
                 /\ stream[w][2] = HandlerEvent(DeliveredResult(r))
    /\ DistinctIds =>
          \A w \in Logins : \A r \in Redirects :
              (Issued(w) /\ result[w].err = ErrTimeout /\ req[r].state = reqId[w])
                 => deliverErr[r] # ErrNil

\* the timeout won while a deliver for the same identifier had passed its
\* lookup and was sending
C5_Witness ==
    \E w \in Logins : \E r \in Redirects :
        /\ DistinctIds /\ Issued(w)
        /\ result[w].err = ErrTimeout
        /\ req[r].state = reqId[w] /\ tokenRes[r].err = ErrNil
        /\ rpc[r] = "sending" /\ sendch[r] = w

\* C6: a redirect that arrives after the wait for its state timed out gets
\* the unknown-session failure: onLoginSuccess returns an error without
\* blocking, the status is 400, and no login receives its tokens.
C6_LateRedirectCleanFailure ==
    \A r \in Redirects :
        (Called(r) /\ tokenRes[r].err = ErrNil /\ DistinctIds
                   /\ waitAtArrival[r] = "timedout") =>
           /\ ~Stuck(r)
           /\ rpc[r] = "done" =>
                 /\ deliverErr[r] = ErrNoSession
                 /\ statusCode[r] = StatusBadRequest
                 /\ response[r].status = StatusBadRequest
           /\ \A w \in Logins : result[w] # DeliveredResult(r)

\* C7: with pairwise distinct identifiers, a completed send for state k is
\* received by the login registered under k, which gets exactly that
\* result, and no other login changes; a waiting login leaves its select
\* only by its own timeout or by a delivery to its own identifier.
C7_DeliverResolvesOnlyItsWaiter ==
    [][DistinctIds =>
         /\ \A r \in Redirects :
               (rpc[r] = "sending" /\ rpc'[r] = "done") =>
                  \E w \in Logins :
                      /\ reqId[w] = req[r].state
                      /\ lpc[w] = "waiting" /\ lpc'[w] = "delete"
                      /\ result'[w] = DeliveredResult(r)
                      /\ \A w2 \in Logins \ {w} :
                            /\ lpc'[w2] = lpc[w2]
                            /\ result'[w2] = result[w2]
                            /\ stream'[w2] = stream[w2]
         /\ \A w \in Logins :
               (lpc[w] = "waiting" /\ lpc'[w] # "waiting") =>
                  \/ result'[w].err = ErrTimeout /\ received'[w] = received[w]
                  \/ \E r \in Redirects :
                        /\ rpc[r] = "sending" /\ rpc'[r] = "done"
                        /\ req[r].state = reqId[w]
                        /\ result'[w] = DeliveredResult(r)]_vars

\* two logins with distinct identifiers: one has received the tokens sent to
\* its identifier, the other is still waiting
C7_Witness ==
    \E w1, w2 \in Logins : \E r \in Redirects :
        /\ Issued(w1) /\ Issued(w2) /\ reqId[w1] # reqId[w2]
        /\ req[r].state = reqId[w1] /\ statusCode[r] = StatusOK
        /\ received[w1] = 1 /\ result[w1] = DeliveredResult(r)
        /\ lpc[w2] = "waiting" /\ selch[w2] = w2

\* C8: every begin-login that issued its identifier eventually returns (or
\* the process is gone).
C8_EveryLoginReturns ==
    \A w \in Logins : (lpc[w] = "lock") ~> (lpc[w] = "done" \/ crashed)

\* C9: as long as a login that wrote its auth-uri event has no outcome, its
\* identifier is registered; so a redirect with valid tokens that arrives
\* while that wait is open answers 200, unless the wait timed out or was
\* resolved by another redirect in between.
C9_RegisteredWhenAuthURIVisible ==
    /\ \A w \in Logins :
          (Issued(w) /\ result[w].err = "none") => Contains(reqId[w])
    /\ \A r \in Redirects :
          (DistinctIds /\ waitAtArrival[r] = "open" /\ tokenRes[r].err = ErrNil
                       /\ rpc[r] = "done") =>
             \/ statusCode[r] = StatusOK
             \/ TimedOut(req[r].state)
             \/ \E w \in Logins : reqId[w] = req[r].state /\ received[w] = 1

\* C10: a redirect whose token exchange succeeded and whose state is unknown
\* or expired answers 400, hands its tokens to no login, and does not keep
\* the broker from serving: it never keeps requestsMutex for ever.
C10_UnknownStateIs400AndBrokerServes ==
    \A r \in Redirects :
        (Called(r) /\ tokenRes[r].err = ErrNil /\ DistinctIds
                   /\ (waitAtArrival[r] = "timedout" \/ NeverRegistered(req[r].state))) =>
           /\ rpc[r] = "done" =>
                 /\ statusCode[r] = StatusBadRequest
                 /\ response[r].status \notin {StatusOK, StatusPermanentRedirect}
           /\ \A w \in Logins : result[w] # DeliveredResult(r)
           /\ ~(requestsMutex = <<"redirect", r>> /\ Stuck(r))

\* another redirect than r carries the same state with tokens of a successful
\* exchange
CompetingSuccess(r) ==
    \E r2 \in Redirects \ {r} : req[r2].state = req[r].state /\ tokenRes[r2].err = ErrNil

\* C11: a redirect whose token exchange failed while its state was pending
\* has called onLoginError, returns, and answers 500; the login waiting under
\* that state ends its stream with an error event; and no redirect answers
\* 5xx without that call.
C11_FailedExchangeDelivers500 ==
    /\ \A r \in Redirects :
          (Called(r) /\ tokenRes[r].err = ErrExchange /\ DistinctIds
                     /\ waitAtArrival[r] = "open") =>
             /\ ~Stuck(r)
             /\ rpc[r] = "done" =>
                   /\ statusCode[r] = StatusInternalServerError
                   /\ response[r].status = StatusInternalServerError
             /\ \A w \in Logins :
                   (reqId[w] = req[r].state /\ lpc[w] = "done" /\ ~CompetingSuccess(r))
                      => stream[w][2].event = eventError
    /\ \A r \in Redirects :
          statusCode[r] >= StatusInternalServerError =>
             Called(r) /\ tokenRes[r].err = ErrExchange

\* C12: the redirect handler validates method, then state, then code: a
\* non-GET request answers 405, a GET without state 400, a GET with state and
\* without code 400; in these cases there is no token exchange, no call of
\* onLoginSuccess or onLoginError, and ctx.requests and requestsMutex are
\* unchanged.
C12_ValidationOrder ==
    [][\A r \in Redirects :
          (rpc[r] = "start" /\ rpc'[r] # "start") =>
             LET q == req'[r]
                 rejected == q.method # "GET" \/ ~q.hasState \/ ~q.hasCode
             IN  /\ q.method # "GET" => statusCode'[r] = StatusMethodNotAllowed
                 /\ (q.method = "GET" /\ ~q.hasState) => statusCode'[r] = StatusBadRequest
                 /\ (q.method = "GET" /\ q.hasState /\ ~q.hasCode)
                       => statusCode'[r] = StatusBadRequest
                 /\ rejected =>
                       /\ rpc'[r] = "done"
                       /\ response'[r].status = statusCode'[r]
                       /\ tokenRes'[r] = NoTokens
                       /\ ~Called(r)'
                       /\ sendch'[r] = NilChan /\ deliverErr'[r] = "none"
                       /\ requests' = requests
                       /\ requestsMutex' = requestsMutex
                 /\ ~rejected => Called(r)' /\ rpc'[r] = "check"]_vars

\* a POST without state and code was answered 405 and a GET without state
\* 400, while an identifier was registered
C12_Witness ==
    \E r1, r2 \in Redirects :
        /\ rpc[r1] = "done" /\ req[r1].method = "POST"
        /\ ~req[r1].hasState /\ ~req[r1].hasCode
        /\ statusCode[r1] = StatusMethodNotAllowed
        /\ rpc[r2] = "done" /\ req[r2].method = "GET" /\ ~req[r2].hasState
        /\ statusCode[r2] = StatusBadRequest
        /\ requests # <<>>

\* C13: the answer to a handled redirect is a 308 to SuccessRedirectURI
\* exactly when handling succeeded and SuccessRedirectURI is set, a 308 to
\* FailedRedirectURI exactly when handling failed (status >= 400) and
\* FailedRedirectURI is set, and otherwise the raw status without Location.
C13_RedirectIffConfigured ==
    \A r \in Redirects :
        rpc[r] = "done" =>
           LET toSuccess == response[r] = [status |-> StatusPermanentRedirect,
                                           location |-> "SuccessRedirectURI"]
               toFailed == response[r] = [status |-> StatusPermanentRedirect,
                                          location |-> "FailedRedirectURI"]
           IN  /\ toSuccess <=> (statusCode[r] = StatusOK /\ config.successRedirect)
               /\ toFailed <=> (statusCode[r] >= StatusBadRequest /\ config.failedRedirect)
               /\ (~toSuccess /\ ~toFailed) =>
                      /\ response[r].location = "none"
                      /\ response[r].status = statusCode[r]
                      /\ statusCode[r] \in {StatusOK, StatusBadRequest,
                                            StatusMethodNotAllowed,
                                            StatusInternalServerError}

\* with both URIs set, one redirect succeeded and was sent to
\* SuccessRedirectURI, another failed and was sent to FailedRedirectURI
C13_Witness ==
    \E r1, r2 \in Redirects :
        /\ rpc[r1] = "done" /\ statusCode[r1] = StatusOK
        /\ response[r1].location = "SuccessRedirectURI"
        /\ rpc[r2] = "done" /\ statusCode[r2] >= StatusBadRequest
        /\ response[r2].location = "FailedRedirectURI"

\* C14: for every result delivered as a success, the relay client that reads
\* the stream of that login returns a nil error and a LoginResult with the
\* delivered access token, refresh token and expiration.
C14_TokenRoundTrip ==
    \A w \in Logins :
        (lpc[w] = "done" /\ Issued(w) /\ result[w].err = ErrNil) =>
           LET out == RelayClient(Wire(stream[w]))
           IN  /\ out.err = NilErr
               /\ out.result.AccessToken = result[w].accessToken
               /\ out.result.RefreshToken = result[w].refreshToken
               /\ out.result.Expiration = result[w].expiration

\* the events of a body: the name of each well-formed message
EventNames(body) ==
    {parseSSEEvent(body[i]).event : i \in {j \in DOMAIN body : parseSSEEvent(body[j]).err = NilErr}}

\* C15: LoginWithOIDCProxy returns a non-nil error for every stream that
\* contains an event name other than auth-uri, logged-in and error, and for
\* every stream that ends before a logged-in or an error event, also the
\* stream with only auth-uri and the empty stream.
C15_ProtocolFailure ==
    (cpc = "done" /\ httpStatus = StatusOK) =>
       /\ EventNames(httpBody) \ {eventAuthURI, eventLoggedIn, eventError} # {}
             => loginErr # NilErr
       /\ EventNames(httpBody) \cap {eventLoggedIn, eventError} = {}
             => loginErr # NilErr

\* message i of the body is a well-formed error event
IsErrorEvent(body, i) ==
    parseSSEEvent(body[i]).err = NilErr /\ parseSSEEvent(body[i]).event = eventError

\* C16: an error event handed to the relay client ends the call: no later
\* message is read, and the call returns a non-nil error that carries the
\* data of that event.
C16_ErrorEventFails ==
    \A i \in 1..scanned :
        IsErrorEvent(httpBody, i) =>
           /\ i = scanned
           /\ cpc = "done"
           /\ loginErr # NilErr
           /\ loginErr = <<"an error occurred during consuming a login event",
                           <<"received error '%s'", parseSSEEvent(httpBody[i]).data>>>>

\* the error event came third, after the auth-uri and a token event, and the
\* call failed with its data
C16_Witness ==
    /\ cpc = "done" /\ scanned = 3
    /\ IsErrorEvent(httpBody, 3)
    /\ loginURIs # <<>>
    /\ tokenEvent # NoTokenEvent
    /\ loginErr[2][2] = <<"mock sso proxy error">>

\* the error of a call that met an event of a name it does not know
IsUnknownEventErr(e) ==
    /\ Len(e) = 2
    /\ e[1] = "an error occurred during consuming a login event"
    /\ e[2][1] = "encountered unknown login event '%s'"

\* C17: every event OIDCLoginHandler writes is named auth-uri, logged-in or
\* error, and the relay client that reads the events written so far knows
\* each of them: it hands the data of auth-uri to onLoginURIReceived and
\* never rejects the stream for an unknown event.
C17_SharedVocabulary ==
    \A w \in Logins :
        /\ \A i \in DOMAIN stream[w] :
               stream[w][i].event \in {eventAuthURI, eventLoggedIn, eventError}
        /\ Issued(w) => RelayClient(Wire(stream[w])).loginURIs = <<stream[w][1].data>>
        /\ ~IsUnknownEventErr(RelayClient(Wire(stream[w])).err)

\* the interval pollTokensEndpoint is called with
InitialInterval ==
    IF deviceRes.Interval = 0 THEN DefaultInterval ELSE deviceRes.Interval

\* a turn of the loop of pollTokensEndpoint: one more request was sent
Polled == requestsSent' = requestsSent + 1

\* C18: the sleep before a poll is the initial interval plus 5 seconds for
\* each slow_down answer received before it; a slow_down answer adds exactly
\* 5 seconds to the interval and an authorization_pending answer leaves it
\* unchanged, and after either the call has not returned.
C18_SlowDownAddsFive ==
    [][Polled =>
         /\ lastSleep' = InitialInterval + 5 * slowDowns
         /\ lastAnswer' = slowDownError =>
               /\ pollInterval' = pollInterval + 5
               /\ slowDowns' = slowDowns + 1
               /\ dpc' = "poll" /\ pollErr' = NilErr
         /\ lastAnswer' = authorizationPendingError =>
               /\ pollInterval' = pollInterval
               /\ slowDowns' = slowDowns
               /\ dpc' = "poll" /\ pollErr' = NilErr]_vars

\* two slow_down answers, then the tokens at the third poll, which was sent
\* after a sleep of the initial interval plus 10 seconds
C18_Witness ==
    /\ dpc = "done" /\ lastAnswer = "tokens" /\ pollErr = NilErr
    /\ requestsSent = 3 /\ slowDowns = 2
    /\ deviceRes.Interval = 2 /\ lastSleep = 12

\* C19: an access_denied or expired_token answer, and an answer with any
\* code other than slow_down and authorization_pending, ends the call with
\* an error in the turn that received it; the error for an unknown code
\* carries that code; and once the call has returned no request is sent.
C19_FatalAnswerStopsPolling ==
    [][/\ (Polled /\ lastAnswer' \in {accessDeniedError, expiredTokenError, "invalid_grant"}) =>
             /\ dpc' = "done"
             /\ pollErr' # NilErr
             /\ lastAnswer' = "invalid_grant" =>
                   /\ Len(pollErr') = 2
                   /\ pollErr'[2] = "invalid_grant"
       /\ dpc = "done" => requestsSent' = requestsSent]_vars

\* the second poll was answered with an unknown code and the call returned
\* the error that carries it
C19_Witness ==
    /\ dpc = "done" /\ requestsSent = 2
    /\ lastAnswer = "invalid_grant"
    /\ pollErr[2] = "invalid_grant"

\* C20: no request is sent to the token endpoint once the accumulated sleep
\* exceeds expires_in, and a call that leaves the loop because the window is
\* exhausted returns the expiry error.
C20_PollsWithinExpiresIn ==
    /\ requestsSent > 0 => timePassed <= deviceRes.ExpiresIn
    /\ (dpc = "done" /\ requestsSent > 0 /\ lastAnswer \in {slowDownError, authorizationPendingError})
          => pollErr = <<"authorization attempt expired">>

\* C21: when the token endpoint answered authorization_pending k times and
\* then 200 with a token response, all within expires_in, the call has
\* returned after k + 1 requests with a nil error and a LoginResult that
\* holds the access_token, refresh_token and expires_in of that response;
\* and the first request was sent after a sleep of one full interval.
C21_PendingThenTokens ==
    /\ (/\ dpc = "done" /\ lastAnswer = "tokens" /\ slowDowns = 0
        /\ timePassed <= deviceRes.ExpiresIn) =>
           /\ requestsSent = pendings + 1
           /\ pollErr = NilErr
           /\ tokenSuccess \in TokenResponses
           /\ ~deviceLoginResult.isNil
           /\ deviceLoginResult.AccessToken = tokenSuccess.AccessToken
           /\ deviceLoginResult.RefreshToken = tokenSuccess.RefreshToken
           /\ deviceLoginResult.Expiration = tokenSuccess.ExpiresIn
    /\ requestsSent = 1 => (lastSleep = InitialInterval /\ timePassed = InitialInterval)
    /\ dpc # "done" => deviceLoginResult.isNil

\* two authorization_pending answers, then the tokens at the third poll of
\* a login with the default interval and a window of 20 seconds
C21_Witness ==
    /\ dpc = "done" /\ lastAnswer = "tokens" /\ slowDowns = 0
    /\ pendings = 2 /\ requestsSent = 3
    /\ deviceRes.Interval = 0 /\ deviceRes.ExpiresIn = 20 /\ timePassed = 15
    /\ deviceLoginResult.AccessToken = <<"access", 2>>
    /\ deviceLoginResult.Expiration = 300

\* the relay client has processed a terminal event (the token event or the
\* error event of its vocabulary) among the messages scanned so far
TerminalProcessed ==
    \E i \in 1..scanned :
        /\ parseSSEEvent(httpBody[i]).err = NilErr
        /\ parseSSEEvent(httpBody[i]).event \in {eventOIDCTokens, clientEventError}

NoNewline(chunk) ==
    /\ \A i \in DOMAIN chunk.event : chunk.event[i] # NL
    /\ \A i \in DOMAIN chunk.data : chunk.data[i] # NL

\* the sender writes events only, with fields that hold no line end
EventsOnly == \A i \in DOMAIN outbox : outbox[i].framed /\ NoNewline(outbox[i])

\* C23: the codec round trip. When every chunk written is an event framed by
\* sendSSEEvent and no field holds a line end, the callback is called with
\* the events written, in their order and with their event and data as
\* written: at any time with a first part of them, never with an error, and
\* with all of them when consumeSSEFromHTTPEventStream has returned.
C23_CodecRoundTrip ==
    EventsOnly =>
        /\ consumeErr = NilErr
        /\ Len(handed) <= written
        /\ \A i \in DOMAIN handed : handed[i] = <<outbox[i].event, outbox[i].data>>
        /\ kpc = "done" => Len(handed) = Len(outbox)

\* the places of the line ends of a message
LineEnds(message) == {i \in DOMAIN message : message[i] = NL}

\* text begins with prefix
HasPrefix(text, prefix) ==
    /\ Len(text) >= Len(prefix)
    /\ \A i \in DOMAIN prefix : text[i] = prefix[i]

\* the message is not two lines, the first beginning with `event: ` and the
\* second with `data: `
Malformed(message) ==
    \/ Cardinality(LineEnds(message)) # 1
    \/ ~HasPrefix(message, eventPrefix)
    \/ \E i \in LineEnds(message) :
          ~HasPrefix(SubSeq(message, i + 1, Len(message)), dataPrefix)

\* the step in which the scanner hands in a message
ScansMessage ==
    /\ kpc = "run"
    /\ written' = written
    /\ unread' # unread
    /\ Scan(unread, AtEOF).kind = "token"

\* C24: when the message the scanner hands in is malformed,
\* consumeSSEFromHTTPEventStream returns the error of an invalid login event
\* in that turn without calling the callback, a message that is well formed
\* is handed to the callback, and after the return nothing more is read
\* from the stream and no callback is called.
C24_MalformedIsParseError ==
    [][/\ (ScansMessage /\ Malformed(Scan(unread, AtEOF).token)) =>
             /\ kpc' = "done"
             /\ Len(consumeErr') = 2
             /\ consumeErr'[1] = "received invalid login event from proxy"
             /\ handed' = handed
       /\ (ScansMessage /\ ~Malformed(Scan(unread, AtEOF).token)) =>
             /\ Len(handed') = Len(handed) + 1
             /\ kpc' = "run"
       /\ kpc = "done" => (handed' = handed /\ unread' = unread)]_vars

\* a message of one line came first and ended the call with the error; the
\* event written after it is still unread and no callback was called
C24_Witness ==
    /\ kpc = "done"
    /\ Len(consumeErr) = 2
    /\ consumeErr[1] = "received invalid login event from proxy"
    /\ written = 2
    /\ ~outbox[1].framed
    /\ outbox[2] = Framed(Text(<<"a">>), <<>>)
    /\ unread = outbox[2].text
    /\ handed = <<>>

\* the begin-login handler w has started and its identifier generation
\* failed or the AuthorizationURI of the configuration does not parse
ShortCircuit(w) ==
    /\ lpc[w] # "start"
    /\ (~config.authURIValid \/ reqId[w] = UnknownState)

\* C25: a begin-login whose identifier generation fails, or that finds an
\* AuthorizationURI that cannot be parsed, has returned in its first step:
\* its stream is exactly one error event, with no auth-uri event, it has
\* registered no channel in the table, and it has not waited for an outcome.
C25_ShortCircuit ==
    \A w \in Logins :
        ShortCircuit(w) =>
            /\ lpc[w] = "done"
            /\ Len(stream[w]) = 1
            /\ stream[w][1].event = eventError
            /\ stream[w][1].data \in {<<"Failed to generate random request id">>,
                                      <<"Invalid authorization URI">>}
            /\ \A i \in DOMAIN stream[w] : stream[w][i].event # eventAuthURI
            /\ reqId[w] = UnknownState
            /\ \A id \in DOMAIN requests : requests[id] # w
            /\ selch[w] = NilChan
            /\ received[w] = 0

\* the identifier generation of the first begin-login failed while the
\* second one, with a valid configuration, is registered and waits
C25_Witness ==
    /\ config.authURIValid
    /\ ShortCircuit(1)
    /\ stream[1] = <<Event(eventError, <<"Failed to generate random request id">>)>>
    /\ lpc[2] = "select"
    /\ requests = MapInsert(<<>>, reqId[2], 2)

\* the begin-logins that wait in their select for an outcome under id
Waiters(id) == {w \in Logins : reqId[w] = id /\ lpc[w] = "waiting"}

\* the sends for id that completed, and the begin-logins of id that
\* received an outcome from a channel
Delivered(id) == {r \in Redirects : req[r].state = id /\ rpc[r] = "done" /\ sendch[r] # NilChan}

Receivers(id) == {w \in Logins : reqId[w] = id /\ received[w] > 0}

\* C26: at no time do two initiateLogin calls wait for an outcome under the
\* same identifier, also when the identifier of a call is already pending;
\* and every send that completed was received by one begin-login of the
\* identifier it was sent to, which received nothing else.
C26_AtMostOneWaiter ==
    /\ \A id \in ReqIds : Cardinality(Waiters(id)) <= 1
    /\ \A id \in ReqIds : Cardinality(Delivered(id)) = Cardinality(Receivers(id))
    /\ \A w \in Logins : received[w] <= 1

\* C27: the edits of the table are mutually exclusive: no entry is inserted
\* or removed while another goroutine holds requestsMutex, and an insert or
\* removal by one handler never can run at the same time as an insert, a
\* removal or a lookup by another.
C27_TableEditsUnderMutex ==
    [][/\ requests' # requests => requestsMutex = NoHolder
       /\ ~DataRace]_vars

\* redirect r waits in its send for the waiter to take the outcome
Sending(r) == rpc[r] = "sending"

\* C28: the handoff is decoupled from the table lock: a deliverer that waits
\* in its send does not hold requestsMutex, and while it waits the mutex is
\* free for the registration of a begin-login and for the delivery of a
\* redirect of any other identifier.
C28_HandoffWithoutMutex ==
    \A r \in Redirects :
        Sending(r) =>
            /\ requestsMutex # <<"redirect", r>>
            /\ \A w \in Logins :
                  (lpc[w] = "lock" /\ reqId[w] # req[r].state) => requestsMutex = NoHolder
            /\ \A r2 \in Redirects :
                  (rpc[r2] = "lock" /\ req[r2].state # req[r].state) => requestsMutex = NoHolder

\* the latest event of the stream of begin-login w
LastEvent(w) == stream[w][Len(stream[w])]

\* the payload of the logged-in event for the tokens oidcGetTokens returned
\* to redirect r
TokensPayload(r) ==
    Marshal([AccessToken |-> tokenRes[r].AccessToken,
             RefreshToken |-> tokenRes[r].RefreshToken,
             Expiration |-> tokenRes[r].ExpiresIn])

\* redirect r has its exchange completed without error and hands its
\* outcome over in this step, to a begin-login of its state
HandsOverSuccess(r, w) ==
    /\ rpc[r] = "sending" /\ rpc'[r] = "done"
    /\ tokenRes[r].err = ErrNil
    /\ req[r].state = reqId[w]

\* C29: the wait of a begin-login returns with a Success outcome, and a
\* logged-in event is written, only in a step in which a redirect for the
\* same identifier, whose token exchange was completed before, hands over
\* its outcome; the outcome and the event hold the tokens of that exchange.
C29_SuccessAfterExchange ==
    [][\A w \in Logins :
          /\ (Len(stream'[w]) = Len(stream[w]) + 1
              /\ stream'[w][Len(stream'[w])].event = eventLoggedIn) =>
                 \E r \in Redirects :
                     /\ HandsOverSuccess(r, w)
                     /\ stream'[w][Len(stream'[w])].data = TokensPayload(r)
          /\ (result'[w] # result[w] /\ result'[w].err = ErrNil) =>
                 \E r \in Redirects :
                     /\ HandsOverSuccess(r, w)
                     /\ result'[w].accessToken = tokenRes[r].AccessToken
                     /\ result'[w].refreshToken = tokenRes[r].RefreshToken
                     /\ result'[w].expiration = tokenRes[r].ExpiresIn]_vars

\* the stream of a begin-login ends with the logged-in event that holds the
\* tokens issued to the redirect of its identifier, which has answered 200
C29_Witness ==
    \E w \in Logins : \E r \in Redirects :
        /\ Len(stream[w]) = 2
        /\ LastEvent(w) = Event(eventLoggedIn, Marshal([AccessToken |-> <<"access", r>>,
                                                        RefreshToken |-> <<"refresh", r>>,
                                                        Expiration |-> 600]))
        /\ req[r].state = reqId[w]
        /\ statusCode[r] = StatusOK

\* the token endpoint did not return tokens to redirect r
NoTokensReturned(r) == Called(r) /\ tokenRes[r].AccessToken = Empty

\* C30: a Success outcome is delivered only for tokens the IdP returned: a
\* redirect whose code exchange was not answered with tokens responds 500
\* and delivers a Failure outcome, and no stream holds a logged-in event
\* with empty tokens.
C30_NoSuccessWithoutTokens ==
    /\ \A r \in Redirects :
          /\ (NoTokensReturned(r) /\ rpc[r] = "done") =>
                 statusCode[r] = StatusInternalServerError
          /\ (NoTokensReturned(r) /\ sendch[r] # NilChan) =>
                 DeliveredResult(r) = LoginResultErr(ErrExchange)
    /\ \A w \in Logins : \A i \in DOMAIN stream[w] :
          stream[w][i].event = eventLoggedIn => stream[w][i].data # Marshal(NoTokenEvent)

\* C31: pollTokensEndpoint ends after a number of polls that the declared
\* expiry bounds, whatever interval and expires_in the device-authorization
\* endpoint returned (an interval of zero, a negative one, one larger than
\* expires_in, expires_in = 0): the sleep before a poll is at least one
\* second, so no call sends more than expires_in + 1 requests, and every
\* turn of the loop that does not return moves the accumulated time forward.
C31_PollsBoundedByExpiry ==
    /\ requestsSent <= deviceRes.ExpiresIn + 1
    /\ requestsSent > 0 => lastSleep >= 1
    /\ (dpc = "poll" /\ requestsSent > 0) => timePassed > 0

\* C32: when the device-authorization response has no interval (the field
\* is 0 or absent, which decodes to 0) pollTokensEndpoint is entered with an
\* interval of 5 seconds and the first request follows a sleep of 5 seconds;
\* when the response has a positive interval, the loop is entered with that
\* value and the first request follows a sleep of that many seconds.
C32_DefaultIntervalFive ==
    /\ (dpc = "poll" /\ requestsSent = 0) =>
          /\ deviceRes.Interval = 0 => pollInterval = 5
          /\ deviceRes.Interval > 0 => pollInterval = deviceRes.Interval
    /\ requestsSent = 1 =>
          /\ deviceRes.Interval = 0 => (lastSleep = 5 /\ timePassed = 5)
          /\ deviceRes.Interval > 0 =>
                (lastSleep = deviceRes.Interval /\ timePassed = deviceRes.Interval)

\* a response without interval: the first poll was sent after 5 seconds and
\* answered authorization_pending, and the interval is still 5 seconds
C32_Witness ==
    /\ deviceRes.Interval = 0 /\ dpc = "poll"
    /\ requestsSent = 1 /\ lastAnswer = authorizationPendingError
    /\ lastSleep = 5 /\ pollInterval = 5

\* redirect r was answered as a success: onLoginSuccess returned nil, the
\* handler returned 200, and the browser got 200 or the success redirect
AnsweredSuccess(r) ==
    \/ deliverErr[r] = ErrNil
    \/ statusCode[r] = StatusOK
    \/ response[r].status = StatusOK
    \/ response[r].location = "SuccessRedirectURI"

\* C33: whenever onLoginSuccess has returned nil for a redirect, and so
\* whenever the redirect handler has answered 200 or the success redirect,
\* a begin-login for the identifier of the redirect has taken exactly the
\* tokens of that redirect from the channel and its handler has written them
\* to its client as the terminal event; a success answer is never given
\* while the send still waits for a receiver.
C33_NilReturnMeansReceived ==
    \A r \in Redirects :
        /\ AnsweredSuccess(r) =>
              /\ rpc[r] = "done"
              /\ \E w \in Logins :
                    /\ reqId[w] = req[r].state
                    /\ received[w] = 1
                    /\ result[w] = DeliveredResult(r)
                    /\ result[w].accessToken = tokenRes[r].AccessToken
                    /\ result[w].refreshToken = tokenRes[r].RefreshToken
                    /\ result[w].expiration = tokenRes[r].ExpiresIn
                    /\ LastEvent(w) = HandlerEvent(result[w])
        /\ rpc[r] = "sending" => (deliverErr[r] = "none" /\ response[r] = NoResponse)

\* a redirect was answered with the success redirect after its tokens were
\* handed to the waiting begin-login, which has returned
C33_Witness ==
    \E r \in Redirects, w \in Logins :
        /\ rpc[r] = "done" /\ deliverErr[r] = ErrNil
        /\ response[r].status = StatusPermanentRedirect
        /\ response[r].location = "SuccessRedirectURI"
        /\ tokenRes[r].AccessToken = <<"access", r>>
        /\ reqId[w] = req[r].state /\ lpc[w] = "done"
        /\ result[w].accessToken = <<"access", r>>

\* redirects r1 and r2 are a duplicate: both passed validation with the same
\* state, both exchanges succeeded, and both arrived while the begin-login
\* of that state was pending
Duplicates(r1, r2) ==
    /\ r1 # r2
    /\ Called(r1) /\ Called(r2)
    /\ req[r1].state = req[r2].state
    /\ tokenRes[r1].err = ErrNil /\ tokenRes[r2].err = ErrNil
    /\ waitAtArrival[r1] = "open" /\ waitAtArrival[r2] = "open"

\* C34: of two redirects that carry the same pending state and are handled
\* concurrently, neither stays blocked in its channel send, and when the
\* waiter took an outcome both return: exactly one onLoginSuccess returns
\* nil, the other the unknown-session failure.
C34_DuplicateRedirectBothReturn ==
    \A r1, r2 \in Redirects :
        (Duplicates(r1, r2) /\ DistinctIds) =>
           /\ ~Stuck(r1) /\ ~Stuck(r2)
           /\ (rpc[r1] = "done" /\ rpc[r2] = "done"
               /\ \E w \in Logins : reqId[w] = req[r1].state /\ received[w] = 1) =>
                  \/ deliverErr[r1] = ErrNil /\ deliverErr[r2] = ErrNoSession
                  \/ deliverErr[r2] = ErrNil /\ deliverErr[r1] = ErrNoSession

\* C35: requestsMutex is never held for ever: its holder is a deliverer in
\* its send, and in every reachable state the send of the holder can still
\* be taken by a begin-login, after which the mutex is released and a new
\* initiateLogin can register.
C35_MutexAlwaysReleased ==
    /\ requestsMutex # NoHolder =>
          \E r \in Redirects : requestsMutex = <<"redirect", r>> /\ rpc[r] = "sending"
    /\ \A r \in Redirects : requestsMutex = <<"redirect", r>> => ~Stuck(r)
    /\ \A w \in Logins :
          lpc[w] = "lock" =>
             ~ \E r \in Redirects : requestsMutex = <<"redirect", r>> /\ Stuck(r)

\* the begin-logins whose initiateLogin has inserted its entry and has not
\* returned
Registered == {w \in Logins : lpc[w] \in {"select", "waiting", "delete"}}

\* C36: with pairwise distinct identifiers, the keys of ctx.requests are in
\* every reachable state the identifiers of the initiateLogin calls that
\* have registered and not returned, each with the channel its call made;
\* the table is empty whenever no begin-login is between its registration
\* and its return; and when the stream of a begin-login has ended, its
\* identifier is not in the table.
C36_TableIsPendingLogins ==
    DistinctIds =>
       /\ DOMAIN requests = {reqId[w] : w \in Registered}
       /\ \A w \in Registered : requests[reqId[w]] = w
       /\ Registered = {} => DOMAIN requests = {}
       /\ \A w \in Logins : (lpc[w] = "done" /\ Issued(w)) => ~Contains(reqId[w])

\* one begin-login has returned after its timeout and its identifier is gone,
\* the other, with another identifier, still waits and is the only entry
C36_Witness ==
    \E w1, w2 \in Logins :
        /\ DistinctIds /\ Issued(w1) /\ Issued(w2)
        /\ lpc[w1] = "done" /\ result[w1].err = ErrTimeout
        /\ lpc[w2] = "waiting"
        /\ DOMAIN requests = {reqId[w2]}

\* a statement of the redirect handler of r ran: the arrival and exchange,
\* the contains test, the lock with the channel operand, or the completed
\* send and return of onLoginSuccess or onLoginError
RedirectMoved(r) == rpc'[r] # rpc[r]

\* C37: no step of onLoginSuccess or onLoginError, whether the call hands
\* its outcome over, fails the contains test or enters its send, adds or
\* removes a key of ctx.requests or replaces the channel of an entry: the
\* table is the same before and after every step of a redirect.
C37_DeliverLeavesTable ==
    [][\A r \in Redirects :
          RedirectMoved(r) =>
             /\ DOMAIN requests' = DOMAIN requests
             /\ \A id \in DOMAIN requests : requests'[id] = requests[id]]_vars

\* one onLoginSuccess failed its contains test and another handed its tokens
\* over; the entry of the receiver is still in the table, with its channel
C37_Witness ==
    \E r1, r2 \in Redirects, w \in Logins :
        /\ rpc[r1] = "done" /\ deliverErr[r1] = ErrNoSession
        /\ rpc[r2] = "done" /\ deliverErr[r2] = ErrNil
        /\ reqId[w] = req[r2].state /\ lpc[w] = "delete"
        /\ Contains(reqId[w]) /\ requests[reqId[w]] = w

\* the request of redirect r passed validation: GET with state and code
Validated(r) == req[r].method = "GET" /\ req[r].hasState /\ req[r].hasCode

\* the token exchange of redirect r is made in this step
Exchanges(r) == tokenRes'[r] # tokenRes[r]

\* C38: every redirect that passes validation makes the token exchange, once
\* and before its state is looked up: the step of the exchange is the
\* arrival, after it the contains test is still to come, and no later step
\* changes what the exchange returned.  An unknown state does not prevent the
\* exchange; a 400 for a validated redirect is the answer to a successful
\* exchange whose state the contains test did not find, and a failed
\* exchange with an unknown state answers 500.
C38_ExchangeBeforeLookup ==
    [][\A r \in Redirects :
          /\ Exchanges(r) =>
                /\ rpc[r] = "start" /\ ~Called(r)
                /\ Validated(r)' /\ Called(r)'
                /\ rpc'[r] = "check"
                /\ deliverErr'[r] = "none" /\ sendch'[r] = NilChan
                /\ statusCode'[r] = 0 /\ response'[r] = NoResponse
          /\ (Validated(r) /\ rpc[r] # "start")' => Called(r)'
          /\ (Validated(r) /\ rpc[r] = "done" /\ sendch[r] = NilChan)' =>
                IF tokenRes'[r].err = ErrNil
                THEN statusCode'[r] = StatusBadRequest /\ deliverErr'[r] = ErrNoSession
                ELSE statusCode'[r] = StatusInternalServerError
          /\ (Validated(r) /\ statusCode[r] = StatusBadRequest)' =>
                tokenRes'[r].err = ErrNil /\ deliverErr'[r] = ErrNoSession]_vars

\* a redirect with a state no begin-login was ever given: the exchange was
\* made and succeeded, and the answer is 400
C38_Witness ==
    \E r \in Redirects :
        /\ Validated(r) /\ req[r].state = UnknownState
        /\ tokenRes[r].AccessToken = <<"access", r>>
        /\ rpc[r] = "done" /\ statusCode[r] = StatusBadRequest
        /\ deliverErr[r] = ErrNoSession

\* message i of the body of the relay client, parsed
Parsed(i) == parseSSEEvent(httpBody[i])

\* message i makes the call fail: it is malformed, an error event, an event
\* of an unknown name, or a token event whose payload is no JSON
FailsCall(i) ==
    \/ Parsed(i).err # NilErr
    \/ Parsed(i).event = clientEventError
    \/ Parsed(i).event \notin {clientEventAuthURI, eventOIDCTokens, clientEventError}
    \/ Parsed(i).event = eventOIDCTokens /\ ~IsJSONObject(Parsed(i).data)

\* the token events read and decoded so far
TokenEventsRead ==
    {i \in 1..scanned : /\ Parsed(i).err = NilErr
                        /\ Parsed(i).event = eventOIDCTokens
                        /\ IsJSONObject(Parsed(i).data)}

\* the latest message of a non-empty set of messages
Latest(S) == CHOOSE i \in S : \A j \in S : j <= i

\* the token events read whose object has a member named key
TokenEventsWith(key) ==
    {i \in TokenEventsRead :
        \E j \in 1..(Len(Parsed(i).data) \div 2) : Parsed(i).data[2 * j - 1] = key}

\* the value of the member named key in the latest token event read that
\* has such a member, and zero when none has
LatestMember(key, zero) ==
    IF TokenEventsWith(key) = {} THEN zero
    ELSE Member(Parsed(Latest(TokenEventsWith(key))).data, key, zero)

\* what a call that read a 200 response returns apart from the tokens: it
\* has read to the end of the stream or to the first message that fails the
\* call, its error is nil exactly when no message of the stream fails the
\* call, and its LoginResult is not nil
ReadsOn ==
    /\ scanned = Len(httpBody) \/ (scanned > 0 /\ FailsCall(scanned))
    /\ \A i \in 1..(scanned - 1) : ~FailsCall(i)
    /\ loginErr = NilErr <=> (\A i \in 1..Len(httpBody) : ~FailsCall(i))
    /\ ~loginResult.isNil

====
